---- MODULE Spec2Model ----
(***************************************************************************)
(* Target monitor of the faction bot (src/src/index.ts): the polling and   *)
(* diff loop that keeps one alert message per showable roster member, the  *)
(* header/footer bookkeeping, and the start/stop commands.                 *)
(*                                                                         *)
(* JavaScript runs one task at a time: the code between two awaits is one  *)
(* atomic step.  Every action below is such a step: it is the resolution   *)
(* of one awaited request (roster fetch, message send, edit, delete)       *)
(* followed by the synchronous code up to the next awaited request.        *)
(* Replies to the operator (message.reply) and the cached channel lookup   *)
(* (client.channels.fetch) are taken to succeed.                           *)
(***************************************************************************)
EXTENDS Integers, FiniteSets, Sequences, TLC

\* ----------------------------------------------------------------- bounds
\* Messages the bot may send in one run (message ids are 1..MaxSends).
MaxSends == 3
\* Timers startMonitoring may create in one run (timer ids are 1..MaxTimers).
MaxTimers == 2

\* Roster fetches that succeed in one run; the later ones fail.
MaxFetches == 2

\* Commands and runMonitoringCycle calls in flight together.
MaxInFlight == 2
\* Expected payouts of one report.
MaxEntries == 2
\* Items of one transaction feed.
MaxFeed == 3
\* Member contributions of one war.
MaxMembers == 3
\* Items of a feed a stored payout is checked against.
MaxLaterFeed == 2
\* Entries of a report on display.
MaxReportEntries == 31
\* Data rows of a CSV file.
MaxRows == 2
\* a write is called at most this often
MaxRuns == 2
\* "!warreport generate" is given at most this often
MaxGenerations == 2

\* Roster member ids of the opposing faction.
Members == {1, 2}
\* Slots for runMonitoringCycle invocations that are in flight together.
Cycles == {1, 2}
\* null
None == 0

\* ------------------------------------------------------- roster (inputs)
Levels == {100, 101}
\* Math.floor(Date.now() / 1000) of a cycle.
Nows == {1000}
\* player.status.until - now of a member in hospital, the values tried
\* around the two ends of the window.
Lefts == {0, 1, 60, 61}
\* maxTime argument of "!monitor start" (minutes).
MaxTimes == {1}
Absent == [present |-> FALSE, state |-> "Okay", until |-> 0, level |-> 0]
\* what the roster may hold for one member: no entry, in hospital until a
\* given time, or out of hospital (status.until is 0 then)
Players(now) ==
    {Absent} \cup
    {[present |-> TRUE, state |-> "Hospital", until |-> now + l, level |-> v] :
        l \in Lefts, v \in Levels} \cup
    {[present |-> TRUE, state |-> "Okay", until |-> 0, level |-> v] :
        v \in Levels}

VARIABLES
    isActive,          \* monitoringConfig.isActive
    intervalId,        \* monitoringConfig.intervalId (a timer id or None)
    maxHospitalTime,   \* monitoringConfig.maxHospitalTime (seconds)
    playerMessages,    \* member id -> [messageId, state], a partial map
    headerMessageId,
    footerMessageId,
    channel,           \* undeleted messages of the bot: [id, kind, member]
    nextId,            \* next message id the chat platform hands out
    timers,            \* live setInterval timers
    nextTimer,         \* next timer id
    fetches,           \* roster fetches that have succeeded so far
    cyc,               \* cycle slot -> state of that runMonitoringCycle call
    startCmd,          \* position of a "!monitor start" command in flight
    stopCmd,           \* state of a "!monitor stop" command in flight
    dibsRegistry,      \* member id -> [userId, username], a partial map
    dibsReply,         \* the last button press and the reply it got
    entries,           \* WarReportEntry[]: the expected payouts of a report
    paymentData,       \* PaymentNews[]: the transaction feed
    verification,      \* what verifyPaymentsWithDoubleCheck returned
    potentialDuplicates, \* what the audit of the feed reports
    config,            \* the stored configuration: key -> value, a partial map
    totalRwCash,       \* the cash amount given to the payout command
    contributions,     \* the stored member contributions of the war
    payoutRun,         \* what the payout command computed
    paid,              \* war_member_payouts.paid of a stored payout, by member id
    lastOp,            \* the last operation on the stored payout
    activeReports,     \* message id -> [entryCount, currentPage, pageSize]
    navPress,          \* the last button press and the page it rendered, from 1
    csvContent,        \* a CSV file: [headers, rows], a row being its cells
    parsed,            \* what parseWarReportCSV returned for it
    warPayouts,        \* the war_payouts rows of the war: one or none
    memberPayouts,     \* war_member_payouts of that payout: member id -> row
    warReport,         \* the war_reports rows of the war: one or none
    memberContributions, \* member_contributions of the war: member id -> row
    save,              \* a batched write in progress and its requests so far
    generation         \* the last "!warreport generate" and what the API gave

vars == <<isActive, intervalId, maxHospitalTime, playerMessages,
          headerMessageId, footerMessageId, channel, nextId, timers,
          nextTimer, fetches, cyc, startCmd, stopCmd,
          dibsRegistry, dibsReply, entries, paymentData, verification,
          potentialDuplicates, config, totalRwCash, contributions, payoutRun,
          paid, lastOp, activeReports, navPress, csvContent, parsed,
          warPayouts, memberPayouts, warReport, memberContributions, save,
          generation>>

monitor == <<isActive, intervalId, maxHospitalTime, timers, nextTimer, fetches>>
tracking == <<playerMessages, headerMessageId, footerMessageId>>
chat == <<channel, nextId>>
dibs == <<dibsRegistry, dibsReply>>
\* the state of the target monitor
monitoring == <<monitor, tracking, chat, cyc, startCmd, stopCmd>>
\* the state outside the target monitor
\* a report, the transaction feed and the verification of the report
ledger == <<entries, paymentData, verification>>
\* the inputs and the result of the payout computation
payoutCalc == <<config, totalRwCash, contributions, payoutRun>>
\* the stored paid flags and the last operation on them
paidFlags == <<paid, lastOp>>
\* the reports on display
display == <<activeReports, navPress>>
\* the state of the verification, the audit and the payouts
earlier == <<dibs, ledger, potentialDuplicates, payoutCalc, paidFlags>>
\* the state of the report pages and of the files
\* a CSV file and what the parser made of it
csv == <<csvContent, parsed>>
\* the tables of the store
tables == <<warPayouts, memberPayouts, warReport, memberContributions>>
store == <<tables, save, generation>>
later == <<display, csv, store>>
others == <<earlier, later>>

\* ------------------------------------------------------------- helpers
EmptyMap == [m \in {} |-> None]
Zero == [m \in Members |-> 0]
Min(S) == CHOOSE x \in S : \A y \in S : x <= y
Max(S) == CHOOSE x \in S : \A y \in S : x >= y

Msg(id, kind, member) == [id |-> id, kind |-> kind, member |-> member]
Ids(ch) == {x.id : x \in ch}
\* channel.messages.fetch(id).then(msg => msg.delete()) that succeeded
Remove(ch, id) == {x \in ch : x.id # id}
\* Map.delete(key)
MapDelete(pm, m) == [k \in DOMAIN pm \ {m} |-> pm[k]]
\* Map.set(key, value)
MapSet(pm, m, v) == [k \in DOMAIN pm \cup {m} |-> IF k = m THEN v ELSE pm[k]]
Entry(id, st) == [messageId |-> id, state |-> st]

\* ------------------------------------------------- classification (290-328)
isInHospital(p) == p.state = "Hospital"
hospitalTimeLeft(p, now) == IF isInHospital(p) THEN p.until - now ELSE 0
inTargetTimeRange(p, now) ==
    /\ isInHospital(p)
    /\ hospitalTimeLeft(p, now) <= maxHospitalTime
    /\ hospitalTimeLeft(p, now) > 0

\* needsDeletion of a roster member p with id m, given the tracking map pm
needsDeletion(m, p, now, pm) ==
    IF m \in DOMAIN pm
    THEN \/ pm[m].state = "hospital" /\ ~inTargetTimeRange(p, now)
         \/ pm[m].state = "available" /\ ~inTargetTimeRange(p, now)
    ELSE FALSE

\* needsUpdate of a roster member p with id m, given the tracking map pm
needsUpdate(m, p, now, pm) ==
    IF m \in DOMAIN pm
    THEN IF pm[m].state = "hospital" /\ ~inTargetTimeRange(p, now) THEN FALSE
         ELSE IF pm[m].state = "available" /\ ~inTargetTimeRange(p, now) THEN FALSE
         ELSE IF pm[m].state = "available" /\ inTargetTimeRange(p, now) THEN TRUE
         ELSE inTargetTimeRange(p, now)
    ELSE inTargetTimeRange(p, now) \/ (~isInHospital(p) /\ p.level <= 100)

\* lines 400-402, 421-423: currentState, the state recorded with the message
\* of an updated member
currentState(inRange) == IF inRange THEN "hospital" ELSE "available"

\* --------------------------------------------- one runMonitoringCycle call
\* pc is the awaited request the call is suspended on ("done": its promise
\* has settled).  todo: the members of processedMembers that need an update
\* and are still ahead in the for loop; tag: their currentState; delPending:
\* the deletes awaited, member -> message id; idx, trk: the member the loop
\* is at and the message id of its tracking entry.
\* The other fields record what the call has seen and done: shown, the tag
\* each member is to be shown with by this roster; prev, the state each
\* member was tracked with when the roster was classified; gone, the tracked
\* members missing from the roster; sends, edits, dels, the requests issued
\* per member; failed, the members one of whose requests failed.
IdleCycle ==
    [pc |-> "idle", initial |-> FALSE, fetched |-> FALSE, aborted |-> FALSE,
     todo |-> {}, tag |-> [m \in Members |-> "none"],
     delPending |-> EmptyMap, idx |-> None, trk |-> None,
     shown |-> [m \in Members |-> "none"], gone |-> {},
     prev |-> [m \in Members |-> "none"],
     sends |-> Zero, edits |-> Zero, dels |-> Zero, failed |-> {}]

NewCycle(first) == [IdleCycle EXCEPT !.pc = "fetch", !.initial = first]

\* the call returns: nothing of the loop is pending any more
Done(r) == [r EXCEPT !.pc = "done", !.idx = None, !.trk = None]

\* lines 474-497 from the size test on: the awaits of the clean-up
AfterFooter(r, pm, h, f) ==
    IF DOMAIN pm = {}
    THEN IF h # None THEN [r EXCEPT !.pc = "cleanupHeader", !.idx = None, !.trk = h]
         ELSE IF f # None
              THEN [r EXCEPT !.pc = "cleanupFooter", !.idx = None, !.trk = f]
              ELSE Done(r)
    ELSE Done(r)

\* lines 466-472: the footer is sent when there is none and the map is not empty
AfterUpdates(r, pm, h, f) ==
    IF f = None /\ DOMAIN pm # {}
    THEN [r EXCEPT !.pc = "footer", !.idx = None, !.trk = None]
    ELSE AfterFooter(r, pm, h, f)

\* lines 362-363, 437-463: the for loop moves to the next member that needs
\* an update, reads its tracking entry and issues the edit or the send
NextUpdate(r, pm, h, f) ==
    IF r.todo = {} THEN AfterUpdates(r, pm, h, f)
    ELSE LET m == Min(r.todo) IN
         IF m \in DOMAIN pm
         THEN [r EXCEPT !.pc = "edit", !.idx = m, !.trk = pm[m].messageId,
                        !.todo = @ \ {m}, !.edits[m] = @ + 1]
         ELSE [r EXCEPT !.pc = "send", !.idx = m, !.trk = None,
                        !.todo = @ \ {m}, !.sends[m] = @ + 1]

\* lines 344-359: one delete is issued for every member of D, the members
\* that need deletion and have a tracking entry; with none to issue the
\* for loop starts at once
StartDeletes(r, D, pm, h, f) ==
    IF D = {} THEN NextUpdate(r, pm, h, f)
    ELSE [r EXCEPT !.pc = "delete",
                   !.delPending = [m \in D |-> pm[m].messageId],
                   !.dels = [m \in Members |-> IF m \in D THEN @[m] + 1 ELSE @[m]]]

\* the tag a member is shown with: "hospital" (in the window), "available",
\* or "none" (not shown; a member that is not on the roster is not shown)
Shown(p, now) ==
    IF ~p.present THEN "none"
    ELSE IF inTargetTimeRange(p, now) THEN "hospital"
    ELSE IF ~isInHospital(p) /\ p.level <= 100 THEN "available"
    ELSE "none"

Idle == {c \in Cycles : cyc[c].pc = "idle"}
\* the slot a new runMonitoringCycle call takes
FreeSlot == Min(Idle)
\* the commands and calls that have begun and not returned
InFlight ==
    Cardinality(Cycles \ Idle)
      + (IF startCmd # "idle" THEN 1 ELSE 0)
      + (IF stopCmd.pc # "idle" THEN 1 ELSE 0)
\* a settled promise resumes its awaiter before any other task runs
Quiet == \A c \in Cycles : cyc[c].pc # "done"

\* lines 281-341: the roster arrives; every member on it is classified against
\* the tracking map; the header is sent when there is none and some member
\* needs an update, otherwise the deletes are issued.  Object.values lists
\* the members by ascending id.  needsDeletion is kept in delPending while
\* the header is awaited.
FetchOk(c) ==
    /\ Quiet
    /\ cyc[c].pc = "fetch"
    /\ fetches < MaxFetches
    /\ fetches' = fetches + 1
    /\ \E now \in Nows : \E roster \in [Members -> Players(now)] :
         LET pres == {m \in Members : roster[m].present}
             upd == {m \in pres : needsUpdate(m, roster[m], now, playerMessages)}
             del == {m \in pres : needsDeletion(m, roster[m], now, playerMessages)}
             r1 == [cyc[c] EXCEPT
                      !.fetched = TRUE,
                      !.todo = upd,
                      !.tag = [m \in Members |->
                                 IF m \in upd
                                 THEN currentState(inTargetTimeRange(roster[m], now))
                                 ELSE "none"],
                      !.shown = [m \in Members |-> Shown(roster[m], now)],
                      !.gone = DOMAIN playerMessages \ pres,
                      !.prev = [m \in Members |->
                                 IF m \in DOMAIN playerMessages
                                 THEN playerMessages[m].state ELSE "none"]]
         IN cyc' = [cyc EXCEPT ![c] =
                IF headerMessageId = None /\ upd # {}
                THEN [r1 EXCEPT !.pc = "header",
                                !.delPending = [m \in del |-> None]]
                ELSE StartDeletes(r1, del, playerMessages, headerMessageId,
                                  footerMessageId)]
    /\ UNCHANGED others
    /\ UNCHANGED <<isActive, intervalId, maxHospitalTime, timers, nextTimer,
                   tracking, chat, startCmd, stopCmd>>

\* FetchFail with a catch block that resets the tracking data
FetchFailResets(c) ==
    /\ Quiet
    /\ cyc[c].pc = "fetch"
    /\ cyc' = [cyc EXCEPT ![c] = Done(cyc[c])]
    /\ playerMessages' = EmptyMap
    /\ headerMessageId' = None
    /\ footerMessageId' = None
    /\ UNCHANGED others
    /\ UNCHANGED <<monitor, chat, startCmd, stopCmd>>

\* lines 282-286, 498-500: fetch or response.json() throws; the catch logs
FetchFail(c) ==
    /\ Quiet
    /\ cyc[c].pc = "fetch"
    /\ cyc' = [cyc EXCEPT ![c] = Done(cyc[c])]
    /\ UNCHANGED others
    /\ UNCHANGED <<monitor, tracking, chat, startCmd, stopCmd>>

\* lines 337-347: the header was sent; the deletes are issued for the
\* members that need deletion and have a tracking entry now
HeaderOk(c) ==
    /\ Quiet
    /\ cyc[c].pc = "header"
    /\ nextId <= MaxSends
    /\ channel' = channel \cup {Msg(nextId, "header", None)}
    /\ nextId' = nextId + 1
    /\ headerMessageId' = nextId
    /\ cyc' = [cyc EXCEPT ![c] =
                 StartDeletes([cyc[c] EXCEPT !.delPending = EmptyMap],
                              DOMAIN cyc[c].delPending \cap DOMAIN playerMessages,
                              playerMessages, nextId, footerMessageId)]
    /\ UNCHANGED others
    /\ UNCHANGED <<monitor, playerMessages, footerMessageId, startCmd, stopCmd>>

\* a channel.send outside any inner try throws into the catch of line 498:
\* the header (337), a new alert (450, 458) or the footer (468)
SendThrows(c) ==
    /\ Quiet
    /\ cyc[c].pc \in {"header", "send", "resend", "footer"}
    /\ cyc' = [cyc EXCEPT ![c] =
                 [Done(cyc[c]) EXCEPT
                    !.aborted = TRUE,
                    !.delPending = EmptyMap,
                    !.failed = IF cyc[c].pc \in {"send", "resend"}
                               THEN @ \cup {cyc[c].idx} ELSE @]]
    /\ UNCHANGED others
    /\ UNCHANGED <<monitor, tracking, chat, startCmd, stopCmd>>

\* the continuation of one delete of lines 346-357 (ch is the channel after
\* it): the entry is dropped; when the last delete has settled the for loop
\* of line 362 starts
DeleteSettled(c, m, ch, threw) ==
    LET pm == MapDelete(playerMessages, m)
        r1 == [cyc[c] EXCEPT !.delPending = MapDelete(@, m),
                             !.failed = IF threw THEN @ \cup {m} ELSE @]
    IN /\ channel' = ch
       /\ playerMessages' = pm
       /\ cyc' = [cyc EXCEPT ![c] =
                    IF DOMAIN r1.delPending = {}
                    THEN NextUpdate(r1, pm, headerMessageId, footerMessageId)
                    ELSE r1]
       /\ UNCHANGED others
       /\ UNCHANGED <<monitor, headerMessageId, footerMessageId, nextId,
                      startCmd, stopCmd>>

\* lines 350-351, 355: the message is fetched and deleted
DeleteOk(c, m) ==
    /\ Quiet
    /\ cyc[c].pc = "delete"
    /\ m \in DOMAIN cyc[c].delPending
    /\ cyc[c].delPending[m] \in Ids(channel)
    /\ DeleteSettled(c, m, Remove(channel, cyc[c].delPending[m]), FALSE)

\* lines 352-355: the fetch or the delete throws; the entry is dropped all the same
DeleteFail(c, m) ==
    /\ Quiet
    /\ cyc[c].pc = "delete"
    /\ m \in DOMAIN cyc[c].delPending
    /\ DeleteSettled(c, m, channel, TRUE)

\* lines 441-446: the tracked message is fetched and edited in place
EditOk(c) ==
    /\ Quiet
    /\ cyc[c].pc = "edit"
    /\ cyc[c].trk \in Ids(channel)
    /\ LET m == cyc[c].idx
           pm == MapSet(playerMessages, m, Entry(cyc[c].trk, cyc[c].tag[m]))
       IN /\ playerMessages' = pm
          /\ cyc' = [cyc EXCEPT ![c] =
                       NextUpdate(cyc[c], pm, headerMessageId, footerMessageId)]
    /\ UNCHANGED others
    /\ UNCHANGED <<monitor, headerMessageId, footerMessageId, chat,
                   startCmd, stopCmd>>

\* EditFail with a catch block that drops the entry and sends no replacement
EditFailDrops(c) ==
    /\ Quiet
    /\ cyc[c].pc = "edit"
    /\ LET m == cyc[c].idx
           pm == MapDelete(playerMessages, m)
       IN /\ playerMessages' = pm
          /\ cyc' = [cyc EXCEPT ![c] =
                       NextUpdate([cyc[c] EXCEPT !.failed = @ \cup {m}],
                                  pm, headerMessageId, footerMessageId)]
    /\ UNCHANGED others
    /\ UNCHANGED <<monitor, headerMessageId, footerMessageId, chat,
                   startCmd, stopCmd>>

\* lines 447-453: the fetch or the edit throws; a new message is sent instead
EditFail(c) ==
    /\ Quiet
    /\ cyc[c].pc = "edit"
    /\ cyc' = [cyc EXCEPT ![c].pc = "resend",
                          ![c].trk = None,
                          ![c].failed = @ \cup {cyc[c].idx},
                          ![c].sends[cyc[c].idx] = @ + 1]
    /\ UNCHANGED others
    /\ UNCHANGED <<monitor, tracking, chat, startCmd, stopCmd>>

\* lines 450-454 and 458-462: the new message was sent and is recorded
SendOk(c) ==
    /\ Quiet
    /\ cyc[c].pc \in {"send", "resend"}
    /\ nextId <= MaxSends
    /\ LET m == cyc[c].idx
           pm == MapSet(playerMessages, m, Entry(nextId, cyc[c].tag[m]))
       IN /\ channel' = channel \cup {Msg(nextId, "alert", m)}
          /\ nextId' = nextId + 1
          /\ playerMessages' = pm
          /\ cyc' = [cyc EXCEPT ![c] =
                       NextUpdate(cyc[c], pm, headerMessageId, footerMessageId)]
    /\ UNCHANGED others
    /\ UNCHANGED <<monitor, headerMessageId, footerMessageId, startCmd, stopCmd>>

\* lines 468-475: the footer was sent
FooterOk(c) ==
    /\ Quiet
    /\ cyc[c].pc = "footer"
    /\ nextId <= MaxSends
    /\ channel' = channel \cup {Msg(nextId, "footer", None)}
    /\ nextId' = nextId + 1
    /\ footerMessageId' = nextId
    /\ cyc' = [cyc EXCEPT ![c] =
                 AfterFooter(cyc[c], playerMessages, headerMessageId, nextId)]
    /\ UNCHANGED others
    /\ UNCHANGED <<monitor, playerMessages, headerMessageId, startCmd, stopCmd>>

\* lines 476-487: the delete of the header settled (ch is the channel after
\* it); its error is swallowed and the id is reset
CleanupHeader(c, ch) ==
    /\ Quiet
    /\ cyc[c].pc = "cleanupHeader"
    /\ channel' = ch
    /\ headerMessageId' = None
    /\ cyc' = [cyc EXCEPT ![c] =
                 IF footerMessageId # None
                 THEN [cyc[c] EXCEPT !.pc = "cleanupFooter", !.trk = footerMessageId]
                 ELSE Done(cyc[c])]
    /\ UNCHANGED others
    /\ UNCHANGED <<monitor, playerMessages, footerMessageId, nextId,
                   startCmd, stopCmd>>

CleanupHeaderOk(c) ==
    /\ cyc[c].pc = "cleanupHeader"
    /\ cyc[c].trk \in Ids(channel)
    /\ CleanupHeader(c, Remove(channel, cyc[c].trk))

CleanupHeaderFail(c) == CleanupHeader(c, channel)

\* lines 487-496: the same for the footer
CleanupFooter(c, ch) ==
    /\ Quiet
    /\ cyc[c].pc = "cleanupFooter"
    /\ channel' = ch
    /\ footerMessageId' = None
    /\ cyc' = [cyc EXCEPT ![c] = Done(cyc[c])]
    /\ UNCHANGED others
    /\ UNCHANGED <<monitor, playerMessages, headerMessageId, nextId,
                   startCmd, stopCmd>>

CleanupFooterOk(c) ==
    /\ cyc[c].pc = "cleanupFooter"
    /\ cyc[c].trk \in Ids(channel)
    /\ CleanupFooter(c, Remove(channel, cyc[c].trk))

CleanupFooterFail(c) == CleanupFooter(c, channel)

\* the promise of the call has settled.  For the call awaited at line 504 the
\* continuation is line 507: setInterval, whose timer is stored.
CycleSettled(c) ==
    /\ cyc[c].pc = "done"
    /\ cyc' = [cyc EXCEPT ![c] = IdleCycle]
    /\ IF cyc[c].initial
       THEN /\ timers' = timers \cup {nextTimer}
            /\ intervalId' = nextTimer
            /\ nextTimer' = nextTimer + 1
       ELSE UNCHANGED <<timers, intervalId, nextTimer>>
    /\ UNCHANGED others
    /\ UNCHANGED <<isActive, maxHospitalTime, fetches, tracking, chat, startCmd, stopCmd>>

\* line 507: a live timer fires and calls runMonitoringCycle, which runs up
\* to its fetch
TimerFire ==
    /\ Quiet
    /\ timers # {}
    /\ Idle # {}
    /\ InFlight < MaxInFlight
    /\ cyc' = [cyc EXCEPT ![FreeSlot] = NewCycle(FALSE)]
    /\ UNCHANGED others
    /\ UNCHANGED <<monitor, tracking, chat, startCmd, stopCmd>>

\* ------------------------------------------------------------- commands
\* lines 177-188
stopMonitoringInterval ==
    /\ timers' = IF intervalId # None THEN timers \ {intervalId} ELSE timers
    /\ intervalId' = None
    /\ isActive' = FALSE
    /\ playerMessages' = EmptyMap
    /\ headerMessageId' = None
    /\ footerMessageId' = None

\* startMonitoringCommand, lines 131-147, up to the first await (the reply
\* of line 142 with a faction id, checkForActiveRW without one)
StartBegin(maxTime, withFaction) ==
    /\ Quiet
    /\ startCmd = "idle"
    /\ InFlight < MaxInFlight
    /\ IF isActive THEN stopMonitoringInterval
       ELSE UNCHANGED <<timers, intervalId, isActive, tracking>>
    /\ maxHospitalTime' = maxTime * 60
    /\ startCmd' = IF withFaction THEN "reply" ELSE "checkRW"
    /\ UNCHANGED others
    /\ UNCHANGED <<chat, nextTimer, fetches, cyc, stopCmd>>

\* lines 143 and 256 with lines 269-282: startMonitoring is called and not
\* awaited; it clears the stored timer, sets isActive and makes the
\* immediate call of runMonitoringCycle, which runs up to its fetch
StartLaunch ==
    /\ Quiet
    /\ startCmd \in {"reply", "checkRW"}
    /\ Idle # {}
    /\ nextTimer + Cardinality({c \in Cycles : cyc[c].initial}) <= MaxTimers
    /\ timers' = IF intervalId # None THEN timers \ {intervalId} ELSE timers
    /\ isActive' = TRUE
    /\ cyc' = [cyc EXCEPT ![FreeSlot] = NewCycle(TRUE)]
    /\ startCmd' = "idle"
    /\ UNCHANGED others
    /\ UNCHANGED <<intervalId, maxHospitalTime, nextTimer, fetches, tracking,
                   chat, stopCmd>>

\* lines 247-265: no ranked war is running, or the request failed
StartNoWar ==
    /\ Quiet
    /\ startCmd = "checkRW"
    /\ startCmd' = "idle"
    /\ UNCHANGED others
    /\ UNCHANGED <<monitor, tracking, chat, cyc, stopCmd>>

\* tracked: the ids the tracking data held when the command was handled
IdleStop == [pc |-> "idle", tracked |-> {}, pending |-> {}]

\* the ids the tracking data holds: the alerts, the header and the footer
TrackedIds ==
    {playerMessages[m].messageId : m \in DOMAIN playerMessages}
      \cup ({headerMessageId, footerMessageId} \ {None})

\* stopMonitoring, lines 160-164, up to the reply, monitoring being active
StopBegin ==
    /\ Quiet
    /\ stopCmd.pc = "idle"
    /\ InFlight < MaxInFlight
    /\ isActive
    /\ stopMonitoringInterval
    /\ stopCmd' = [IdleStop EXCEPT !.pc = "reply", !.tracked = TrackedIds]
    /\ UNCHANGED others
    /\ UNCHANGED <<maxHospitalTime, nextTimer, fetches, chat, cyc, startCmd>>

\* lines 168-170: monitoring is not active, the command only replies
StopInactive ==
    /\ Quiet
    /\ stopCmd.pc = "idle"
    /\ ~isActive
    /\ UNCHANGED vars

\* lines 164, 171-174: the reply throws; cleanupChannel is not called
StopReplyThrows ==
    /\ Quiet
    /\ stopCmd.pc = "reply"
    /\ stopCmd' = IdleStop
    /\ UNCHANGED others
    /\ UNCHANGED <<monitor, tracking, chat, cyc, startCmd>>

\* cleanupChannel, lines 190-218, up to the await of the deletes: one delete
\* is issued for the header, the footer and every entry of the map as they
\* are now; with none to await the map is cleared at once
StopReplied ==
    /\ Quiet
    /\ stopCmd.pc = "reply"
    /\ headerMessageId' = None
    /\ footerMessageId' = None
    /\ IF TrackedIds = {}
       THEN /\ playerMessages' = EmptyMap
            /\ stopCmd' = IdleStop
       ELSE /\ UNCHANGED playerMessages
            /\ stopCmd' = [IdleStop EXCEPT !.pc = "cleanup",
                                           !.pending = TrackedIds]
    /\ UNCHANGED others
    /\ UNCHANGED <<monitor, chat, cyc, startCmd>>

\* lines 196-198, 203-205, 211-213, 217-218: one delete settled (ch is the
\* channel after it); after the last one the map is cleared
StopDeleteSettled(id, ch) ==
    /\ Quiet
    /\ stopCmd.pc = "cleanup"
    /\ id \in stopCmd.pending
    /\ channel' = ch
    /\ IF stopCmd.pending = {id}
       THEN /\ playerMessages' = EmptyMap
            /\ stopCmd' = IdleStop
       ELSE /\ UNCHANGED playerMessages
            /\ stopCmd' = [stopCmd EXCEPT !.pending = @ \ {id}]
    /\ UNCHANGED others
    /\ UNCHANGED <<monitor, headerMessageId, footerMessageId, nextId, cyc, startCmd>>

StopDeleteOk(id) ==
    /\ id \in Ids(channel)
    /\ StopDeleteSettled(id, Remove(channel, id))

StopDeleteFail(id) == StopDeleteSettled(id, channel)

\* ------------------------------------------------- claims registry (dibs)
\* Discord users that press the claim button
Users == {1, 2, 3}
\* member ids the claim buttons carry (customId "dibs_<id>")
DibsPlayers == {1, 2, 3}
\* user.username
Username(u) == <<"user", u>>
NoReply == [user |-> None, player |-> None, text |-> "none"]

\* handleDibsButton with a branch that releases the claim whoever presses
handleDibsButtonAnyone(u, m) ==
    /\ IF m \in DOMAIN dibsRegistry
       THEN /\ dibsRegistry' = MapDelete(dibsRegistry, m)
            /\ dibsReply' = [user |-> u, player |-> m, text |-> "released"]
       ELSE /\ dibsRegistry' =
                 MapSet(dibsRegistry, m, [userId |-> u, username |-> Username(u)])
            /\ dibsReply' = [user |-> u, player |-> m, text |-> "claimed"]
    /\ UNCHANGED <<monitoring, later, ledger, potentialDuplicates, payoutCalc, paidFlags>>

\* lines 511-537: the press of the claim button of member m by user u, up to
\* the reply; the registry is read and written before the first await
handleDibsButton(u, m) ==
    /\ IF m \in DOMAIN dibsRegistry
       THEN IF dibsRegistry[m].userId = u
            THEN /\ dibsRegistry' = MapDelete(dibsRegistry, m)
                 /\ dibsReply' = [user |-> u, player |-> m, text |-> "released"]
            ELSE /\ UNCHANGED dibsRegistry
                 /\ dibsReply' = [user |-> u, player |-> m,
                                  text |-> "already claimed"]
       ELSE /\ dibsRegistry' =
                 MapSet(dibsRegistry, m, [userId |-> u, username |-> Username(u)])
            /\ dibsReply' = [user |-> u, player |-> m, text |-> "claimed"]
    /\ UNCHANGED <<monitoring, later, ledger, potentialDuplicates, payoutCalc, paidFlags>>

\* --------------------------------------------------- strings and numbers
\* A string is a sequence of characters.  A bracketed id, "[1]", is taken as
\* one character: no name holds a bracket.
Digits == <<"0", "1", "2", "3", "4", "5", "6", "7", "8", "9">>
IsDigit(ch) == \E d \in 1..10 : Digits[d] = ch
DigitValue(ch) == (CHOOSE d \in 1..10 : Digits[d] = ch) - 1
BracketIds == {"[1]", "[2]"}
\* the digits between the brackets, as the id they denote
BracketValue(ch) == IF ch = "[1]" THEN 1 ELSE 2

\* String.prototype.toLowerCase
LowerChar(ch) == IF ch = "A" THEN "a" ELSE IF ch = "B" THEN "b" ELSE ch
toLowerCase(str) == [i \in 1..Len(str) |-> LowerChar(str[i])]
\* String.prototype.includes
includes(str, sub) ==
    \E i \in 0..(Len(str) - Len(sub)) : SubSeq(str, i + 1, i + Len(sub)) = sub
\* replace(/,/g, '')
RemoveCommas(str) == SelectSeq(str, LAMBDA ch : ch # ",")

\* a number of JavaScript: NaN or an integer
NaN == [nan |-> TRUE, value |-> 0]
Num(n) == [nan |-> FALSE, value |-> n]
\* a === b on numbers
StrictEquals(a, b) == ~a.nan /\ ~b.nan /\ a.value = b.value
\* a > 0 on numbers
Positive(a) == ~a.nan /\ a.value > 0

RECURSIVE LeadingDigits(_, _)
\* the value of the longest prefix of digits of str, read after acc
LeadingDigits(str, acc) ==
    IF str = <<>> \/ ~IsDigit(Head(str)) THEN acc
    ELSE LeadingDigits(Tail(str), 10 * acc + DigitValue(Head(str)))
\* parseInt(str): an optional sign and the leading digits, NaN without a digit
parseInt(str) ==
    LET neg == str # <<>> /\ Head(str) = "-"
        body == IF neg THEN Tail(str) ELSE str
    IN IF body = <<>> \/ ~IsDigit(Head(body)) THEN NaN
       ELSE Num((IF neg THEN -1 ELSE 1) * LeadingDigits(body, 0))

RECURSIVE DigitsOf(_)
DigitsOf(n) ==
    IF n < 10 THEN <<Digits[n + 1]>>
    ELSE Append(DigitsOf(n \div 10), Digits[(n % 10) + 1])
\* Number.prototype.toString of an integer
toString(n) == IF n < 0 THEN <<"-">> \o DigitsOf(-n) ELSE DigitsOf(n)

\* ------------------------------------------------- payment verification
\* warReportUtils.ts.  An entry is [id, name, Member, Total_Payout]; id None
\* and name <<>> stand for a field that is missing or empty.
\* lines 58-62 of parseWarReportCSV: id and name are taken from the Member
\* column when it holds a bracketed id
CsvRecord(member, payout) ==
    LET at == {i \in 1..Len(member) : member[i] \in BracketIds}
    IN IF at = {}
       THEN [id |-> None, name |-> <<>>, Member |-> member, Total_Payout |-> payout]
       ELSE [id |-> BracketValue(member[Min(at)]),
             name |-> SubSeq(member, 1, Min(at) - 1),
             Member |-> member, Total_Payout |-> payout]
\* rwPayoutCommand.ts lines 103-118 and 207-217: the entry the payout command
\* builds for a stored member; it sets no name
PayoutEntry(member_id, member_name, payment) ==
    [id |-> member_id, name |-> <<>>, Member |-> member_name,
     Total_Payout |-> toString(payment)]

\* a feed item whose text is "<admin> increased <recipient>'s money balance
\* by $<amountStr> from ...", and one with any other text
Increase(admin, recipient, amountStr, ts) ==
    [increased |-> TRUE, admin |-> admin, recipient |-> recipient,
     amountStr |-> amountStr, timestamp |-> ts]
OtherNews(ts) ==
    [increased |-> FALSE, admin |-> None, recipient |-> <<>>,
     amountStr |-> <<>>, timestamp |-> ts]

\* lines 153-164 with a comparison that accepts a larger amount
MatchesAtLeast(entry, payment) ==
    /\ payment.increased
    /\ LET amount == parseInt(RemoveCommas(payment.amountStr))
           paymentAmount == parseInt(RemoveCommas(entry.Total_Payout))
           memberName == toLowerCase(entry.name)
           recipientName == toLowerCase(payment.recipient)
       IN /\ includes(recipientName, memberName) \/ includes(memberName, recipientName)
          /\ ~amount.nan /\ ~paymentAmount.nan
          /\ amount.value >= paymentAmount.value

\* lines 150-164: the text matches the template, the names match in one
\* direction and the amounts are equal
Matches(entry, payment) ==
    /\ payment.increased
    /\ LET amount == parseInt(RemoveCommas(payment.amountStr))
           paymentAmount == parseInt(RemoveCommas(entry.Total_Payout))
           memberName == toLowerCase(entry.name)
           recipientName == toLowerCase(payment.recipient)
       IN /\ includes(recipientName, memberName) \/ includes(memberName, recipientName)
          /\ StrictEquals(amount, paymentAmount)

\* lines 139-143: the entries the loop does not skip
Checked(entry) ==
    /\ entry.id # None /\ entry.name # <<>>
    /\ Positive(parseInt(RemoveCommas(entry.Total_Payout)))

\* lines 146-173: matchingPayments, in feed order
matchingPayments(entry, feed) ==
    LET hits == SelectSeq(feed, LAMBDA payment : Matches(entry, payment))
    IN [i \in 1..Len(hits) |->
          [admin |-> hits[i].admin, timestamp |-> hits[i].timestamp]]

RECURSIVE InsertByTimestamp(_, _)
\* x put into a list sorted by descending timestamp, after its equals
InsertByTimestamp(sorted, x) ==
    IF sorted = <<>> THEN <<x>>
    ELSE IF Head(sorted).timestamp >= x.timestamp
         THEN <<Head(sorted)>> \o InsertByTimestamp(Tail(sorted), x)
         ELSE <<x>> \o sorted
RECURSIVE SortNewestFirst(_)
\* line 178: sort((a, b) => b.timestamp - a.timestamp), a stable sort
SortNewestFirst(list) ==
    IF list = <<>> THEN <<>>
    ELSE InsertByTimestamp(SortNewestFirst(SubSeq(list, 1, Len(list) - 1)),
                           list[Len(list)])

\* lines 135-136: the two maps, empty
NoVerification == [verifiedPayments |-> EmptyMap, doublePayments |-> EmptyMap]

\* lines 175-205 with the first match found in place of the most recent one
RecordEntryFirstFound(result, entry, feed) ==
    LET found == matchingPayments(entry, feed)
    IN IF Len(found) > 0
       THEN LET record == [verified |-> TRUE, verifiedBy |-> found[1].admin,
                           timestamp |-> found[1].timestamp]
            IN [verifiedPayments |-> MapSet(result.verifiedPayments, entry.id, record),
                doublePayments |->
                    IF Len(found) > 1
                    THEN MapSet(result.doublePayments, entry.id,
                                [verified |-> TRUE, verifiedBy |-> found[1].admin,
                                 timestamp |-> found[1].timestamp,
                                 count |-> Len(found), allPayments |-> found])
                    ELSE result.doublePayments]
       ELSE [result EXCEPT !.verifiedPayments =
                MapSet(@, entry.id, [verified |-> FALSE, verifiedBy |-> None,
                                     timestamp |-> None])]

\* lines 175-205: the records set for one entry
RecordEntry(result, entry, feed) ==
    LET sorted == SortNewestFirst(matchingPayments(entry, feed))
    IN IF Len(sorted) > 0
       THEN LET mostRecent == sorted[1]
                record == [verified |-> TRUE, verifiedBy |-> mostRecent.admin,
                           timestamp |-> mostRecent.timestamp]
            IN [verifiedPayments |-> MapSet(result.verifiedPayments, entry.id, record),
                doublePayments |->
                    IF Len(sorted) > 1
                    THEN MapSet(result.doublePayments, entry.id,
                                [verified |-> TRUE, verifiedBy |-> mostRecent.admin,
                                 timestamp |-> mostRecent.timestamp,
                                 count |-> Len(sorted), allPayments |-> sorted])
                    ELSE result.doublePayments]
       ELSE [result EXCEPT !.verifiedPayments =
                MapSet(@, entry.id, [verified |-> FALSE, verifiedBy |-> None,
                                     timestamp |-> None])]

RECURSIVE VerifyFrom(_, _, _, _)
\* lines 138-206: the loop over the entries from index i on
VerifyFrom(result, list, feed, i) ==
    IF i > Len(list) THEN result
    ELSE VerifyFrom(IF Checked(list[i]) THEN RecordEntry(result, list[i], feed)
                    ELSE result,
                    list, feed, i + 1)
\* lines 128-209
verifyPaymentsWithDoubleCheck(list, feed) == VerifyFrom(NoVerification, list, feed, 1)

\* the Member column of an uploaded CSV and its Total_Payout column
MemberTexts == {<<"A", "b", "[1]">>, <<"b", "[2]">>, <<"b">>}
CsvPayouts == {<<"1", ",", "0">>, <<"0">>, <<"x">>}
CsvEntries == {CsvRecord(member, payout) : member \in MemberTexts, payout \in CsvPayouts}
\* the stored members of a payout and the payments computed for them
StoredMembers == {[member_id |-> 1, member_name |-> <<"A", "b">>],
                  [member_id |-> 2, member_name |-> <<"b">>]}
Payments == {10, 11}
PayoutEntries ==
    {PayoutEntry(member.member_id, member.member_name, payment) :
        member \in StoredMembers, payment \in Payments}
\* the lists of one kind of entry in which no member id appears twice
ListsOf(S) ==
    {list \in UNION {[1..n -> S] : n \in 0..MaxEntries} :
        \A i, j \in 1..Len(list) :
            i # j /\ list[i].id # None => list[i].id # list[j].id}
EntryLists == ListsOf(CsvEntries) \cup ListsOf(PayoutEntries)

\* the feed: who paid and when, to whom, how much
Admins == {[admin |-> 1, timestamp |-> 1], [admin |-> 2, timestamp |-> 2],
           [admin |-> 1, timestamp |-> 2]}
Recipients == {<<"a", "B">>, <<"A">>, <<"c">>}
AmountStrs == {<<"1", "0">>, <<"1", ",", "1">>}
NewsItems ==
    {Increase(a.admin, recipient, amountStr, a.timestamp) :
        a \in Admins, recipient \in Recipients, amountStr \in AmountStrs}
      \cup {OtherNews(1)}
Feeds == UNION {[1..n -> NewsItems] : n \in 0..MaxFeed}

NotVerified == [ran |-> FALSE, verifiedPayments |-> EmptyMap,
                doublePayments |-> EmptyMap]

\* a report is verified against the feed: warReportCommands.ts line 92,
\* rwPayoutCommand.ts lines 123 and 226
RunVerify ==
    /\ ~verification.ran
    /\ LET result == verifyPaymentsWithDoubleCheck(entries, paymentData)
       IN verification' = [ran |-> TRUE,
                           verifiedPayments |-> result.verifiedPayments,
                           doublePayments |-> result.doublePayments]
    /\ UNCHANGED <<monitoring, later, dibs, entries, paymentData, potentialDuplicates, payoutCalc,
                   paidFlags>>

\* ------------------------------------------------------- the audit
\* warReportCommands.ts, handleVerifyAllPayments.
\* lines 572-575: the id between the first brackets of the recipient text,
\* "unknown" without one; the name before the bracket, or the whole text
HasBracketId(recipient) == \E i \in 1..Len(recipient) : recipient[i] \in BracketIds
FirstBracket(recipient) == Min({i \in 1..Len(recipient) : recipient[i] \in BracketIds})
AuditId(recipient) ==
    IF HasBracketId(recipient)
    THEN toString(BracketValue(recipient[FirstBracket(recipient)]))
    ELSE <<"unknown">>
AuditName(recipient) ==
    IF HasBracketId(recipient)
    THEN SubSeq(recipient, 1, FirstBracket(recipient) - 1)
    ELSE recipient
\* line 570
AuditAmount(payment) == parseInt(RemoveCommas(payment.amountStr))
\* lines 561-591: the payments of the group of id, in feed order; the items
\* that do not follow the template are skipped
GroupPayments(feed, id) ==
    SelectSeq(feed, LAMBDA payment :
        payment.increased /\ AuditId(payment.recipient) = id)
\* lines 577-583: the keys of paymentsByRecipient
GroupIds(feed) ==
    {AuditId(feed[j].recipient) : j \in {k \in 1..Len(feed) : feed[k].increased}}
\* lines 601-612: info.count and info.admins of one amount of one group
AmountCount(payments, amount) ==
    Cardinality({x \in 1..Len(payments) : AuditAmount(payments[x]) = amount})
AmountAdmins(payments, amount) ==
    {payments[x].admin : x \in {y \in 1..Len(payments) : AuditAmount(payments[y]) = amount}}
\* lines 594-627: the duplicates reported, as a set
FindDuplicates(feed) ==
    UNION {
        LET payments == GroupPayments(feed, id)
        IN {[name |-> AuditName(payments[1].recipient), id |-> id,
             amount |-> amount, count |-> AmountCount(payments, amount),
             admins |-> AmountAdmins(payments, amount)] :
                amount \in {a \in {AuditAmount(payments[x]) : x \in 1..Len(payments)} :
                              AmountCount(payments, a) > 1}}
        : id \in GroupIds(feed)}

\* the recipient texts of the feed that is audited
AuditRecipients == {<<"A", "[1]">>, <<"b", "[1]">>, <<"b", "[2]">>, <<"b">>, <<"c">>}
AuditAdmins == {1, 2}
AuditItems ==
    {Increase(admin, recipient, amountStr, 1) :
        admin \in AuditAdmins, recipient \in AuditRecipients,
        amountStr \in AmountStrs} \cup {OtherNews(1)}
AuditFeeds == UNION {[1..n -> AuditItems] : n \in 0..MaxFeed}

NotAudited == [ran |-> FALSE, found |-> {}]

\* lines 540-628 of handleVerifyAllPayments
handleVerifyAllPayments ==
    /\ ~potentialDuplicates.ran
    /\ potentialDuplicates' = [ran |-> TRUE, found |-> FindDuplicates(paymentData)]
    /\ UNCHANGED <<monitoring, later, dibs, ledger, payoutCalc, paidFlags>>

\* ------------------------------------------------- payout computation
\* rwPayoutCommand.ts, handleRWPayoutCommand.  The multipliers are counted in
\* tenths and the percentage in hundredths, so that points are tenths of a
\* point and the arithmetic is exact.
DefaultHitMultiplier == 0
DefaultRwHitMultiplier == 8
DefaultAssistMultiplier == 2
DefaultPayoutPercentage == 90

\* value || fallback, on the value stored under key: a missing value and 0
\* are both falsy
OrDefault(cfg, key, fallback) ==
    IF key \in DOMAIN cfg /\ cfg[key] # 0 THEN cfg[key] ELSE fallback
\* lines 160-164
hitMultiplier(cfg) == OrDefault(cfg, "hit_multiplier", DefaultHitMultiplier)
rwHitMultiplier(cfg) == OrDefault(cfg, "rw_hit_multiplier", DefaultRwHitMultiplier)
assistMultiplier(cfg) == OrDefault(cfg, "assist_multiplier", DefaultAssistMultiplier)
payoutPercentage(cfg) == OrDefault(cfg, "payout_percentage", DefaultPayoutPercentage)

\* line 167, in hundredths: totalRwCash * (payoutPercentage / 100)
totalPayout(cfg, cash) == cash * payoutPercentage(cfg)
\* lines 173-177 and 189-193, in tenths
memberPoints(cfg, member) ==
    member.war_hits * rwHitMultiplier(cfg)
      + member.under_respect_hits * hitMultiplier(cfg)
      + member.non_war_hits * hitMultiplier(cfg)
      + member.assists * assistMultiplier(cfg)
RECURSIVE totalPointsFrom(_, _, _)
totalPointsFrom(cfg, list, i) ==
    IF i > Len(list) THEN 0
    ELSE memberPoints(cfg, list[i]) + totalPointsFrom(cfg, list, i + 1)
\* lines 171-180
totalPoints(cfg, list) == totalPointsFrom(cfg, list, 1)
\* Math.floor and Math.round of num / den, for num >= 0 and den > 0
Floor(num, den) == num \div den
Round(num, den) == (2 * num + den) \div (2 * den)
\* lines 183 and 196: Math.round(memberPoints * paymentPerPoint), where
\* paymentPerPoint is totalPayout / totalPoints, or 0 when totalPoints is 0
memberPayment(cfg, cash, list, member) ==
    IF totalPoints(cfg, list) > 0
    THEN Round(memberPoints(cfg, member) * totalPayout(cfg, cash),
               100 * totalPoints(cfg, list))
    ELSE 0
\* lines 187-218: the entry of every member, in the order of the contributions
mapped(cfg, cash, list) ==
    [i \in 1..Len(list) |->
        PayoutEntry(list[i].member_id, list[i].member_name,
                    memberPayment(cfg, cash, list, list[i]))]
\* line 219 with >= in place of >
KeepsZero(entry) == ~parseInt(entry.Total_Payout).nan
\* line 219: parseFloat(entry.Total_Payout) > 0
IsPaidOut(entry) == Positive(parseInt(entry.Total_Payout))
RECURSIVE InsertByPayout(_, _)
\* x put into a list sorted by descending payout, after its equals
InsertByPayout(sorted, x) ==
    IF sorted = <<>> THEN <<x>>
    ELSE IF parseInt(Head(sorted).Total_Payout).value >= parseInt(x.Total_Payout).value
         THEN <<Head(sorted)>> \o InsertByPayout(Tail(sorted), x)
         ELSE <<x>> \o sorted
RECURSIVE SortByPayout(_)
\* line 220: sort((a, b) => parseInt(b.Total_Payout) - parseInt(a.Total_Payout))
SortByPayout(list) ==
    IF list = <<>> THEN <<>>
    ELSE InsertByPayout(SortByPayout(SubSeq(list, 1, Len(list) - 1)), list[Len(list)])

\* the stored configurations: each key missing or holding one of its values
ConfigKeys == {"hit_multiplier", "rw_hit_multiplier", "assist_multiplier",
               "payout_percentage"}
ConfigValues(key) ==
    CASE key = "hit_multiplier" -> {0, 5}
      [] key = "rw_hit_multiplier" -> {0, 10}
      [] key = "assist_multiplier" -> {0, 2}
      [] key = "payout_percentage" -> {0, 50, 100}
Configs ==
    UNION {{cfg \in [keys -> {0, 2, 5, 10, 50, 100}] :
              \A key \in keys : cfg[key] \in ConfigValues(key)} :
           keys \in SUBSET ConfigKeys}
\* the cash amounts: line 50 admits the positive ones
CashAmounts == {7, 600}
\* war_hits, under_respect_hits, non_war_hits, assists of one member
Counters ==
    {<<0, 0, 0, 0>>, <<1, 0, 0, 0>>, <<0, 1, 0, 0>>, <<0, 0, 1, 0>>,
     <<0, 0, 0, 1>>, <<10, 0, 0, 0>>, <<20, 0, 0, 0>>, <<30, 0, 0, 0>>,
     <<3, 1, 0, 2>>}
Contribution(id, counters) ==
    [member_id |-> id, member_name |-> <<"m">> \o toString(id),
     war_hits |-> counters[1], under_respect_hits |-> counters[2],
     non_war_hits |-> counters[3], assists |-> counters[4]]
\* the contributions of a war: one row per member, at least one (line 151)
ContributionLists ==
    UNION {{[i \in 1..n |-> Contribution(i, counters[i])] :
              counters \in [1..n -> Counters]} : n \in 1..MaxMembers}

NotComputed == [ran |-> FALSE, totalPayout |-> 0, rwHitMultiplier |-> 0,
                hitMultiplier |-> 0, assistMultiplier |-> 0,
                payoutPercentage |-> 0, mapped |-> <<>>, entries |-> <<>>]

\* lines 158-220 of handleRWPayoutCommand: the payout is computed from the
\* stored contributions
computePayout ==
    /\ ~payoutRun.ran
    /\ payoutRun' =
          [ran |-> TRUE,
           totalPayout |-> totalPayout(config, totalRwCash),
           rwHitMultiplier |-> rwHitMultiplier(config),
           hitMultiplier |-> hitMultiplier(config),
           assistMultiplier |-> assistMultiplier(config),
           payoutPercentage |-> payoutPercentage(config),
           mapped |-> mapped(config, totalRwCash, contributions),
           entries |-> SortByPayout(SelectSeq(
                           mapped(config, totalRwCash, contributions), IsPaidOut))]
    /\ UNCHANGED <<monitoring, later, dibs, ledger, potentialDuplicates, config,
                   totalRwCash, contributions, paidFlags>>

\* ------------------------------------------------------- the paid flag
\* The member rows of a stored payout: tsconfig.json lines 120-234 (the payout
\* repository) and the commands of rwPayoutCommand.ts that update them.
PaidMembers == {member.member_id : member \in StoredMembers}
\* payment_amount of the stored row of a member
StoredPayment(member_id) == IF member_id = 1 THEN 10 ELSE 11
\* rwPayoutCommand.ts lines 103-118: the entries built from the stored rows
ExistingEntries ==
    [i \in 1..2 |->
        LET member == CHOOSE x \in StoredMembers : x.member_id = i
        IN PayoutEntry(member.member_id, member.member_name,
                       StoredPayment(member.member_id))]
\* the feeds fetched when a stored payout is used again
LaterItems ==
    {Increase(1, <<"A", "b">>, <<"1", "0">>, 1),
     Increase(2, <<"b">>, <<"1", "1">>, 2), OtherNews(1)}
LaterFeeds == UNION {[1..n -> LaterItems] : n \in 0..MaxLaterFeed}
\* tsconfig.json lines 202-234: the updates are applied one by one and the
\* first error ends them, so any of them may be left out; done are the ones
\* applied
updatePaymentStatus(done, value) ==
    paid' = [m \in PaidMembers |-> IF m \in done THEN value ELSE paid[m]]

\* lines 99-137 writing the outcome of the verification for every member
useExistingPayoutOverwrites(feed) ==
    LET result == verifyPaymentsWithDoubleCheck(ExistingEntries, feed)
        verified == {m \in DOMAIN result.verifiedPayments :
                        result.verifiedPayments[m].verified}
    IN /\ entries' = ExistingEntries
       /\ paymentData' = feed
       /\ verification' = [ran |-> TRUE,
                           verifiedPayments |-> result.verifiedPayments,
                           doublePayments |-> result.doublePayments]
       /\ paid' = [m \in PaidMembers |-> m \in verified]
       /\ lastOp' = [op |-> "use existing", member |-> None]
       /\ UNCHANGED <<monitoring, later, dibs, potentialDuplicates, payoutCalc>>

\* lines 99-137 of handleRWPayoutCommand: a stored payout is used again and
\* verified against the feed fetched now; the members found verified are
\* updated to paid
useExistingPayout(feed) ==
    LET result == verifyPaymentsWithDoubleCheck(ExistingEntries, feed)
        memberUpdates == {m \in DOMAIN result.verifiedPayments :
                             result.verifiedPayments[m].verified}
    IN /\ entries' = ExistingEntries
       /\ paymentData' = feed
       /\ verification' = [ran |-> TRUE,
                           verifiedPayments |-> result.verifiedPayments,
                           doublePayments |-> result.doublePayments]
       /\ \E done \in SUBSET memberUpdates : updatePaymentStatus(done, TRUE)
       /\ lastOp' = [op |-> "use existing", member |-> None]
       /\ UNCHANGED <<monitoring, later, dibs, potentialDuplicates, payoutCalc>>

\* lines 412-449 of handlePaymentVerification: the operator marks the payment
\* of member m verified or unverified; the update may fail (line 450)
handlePaymentVerification(action, m) ==
    /\ \E done \in SUBSET {m} : updatePaymentStatus(done, action = "verify")
    /\ lastOp' = [op |-> action, member |-> m]
    /\ UNCHANGED <<monitoring, later, dibs, ledger, potentialDuplicates, payoutCalc>>

\* lines 621-637: every pending payment of the payout is marked paid
verifyAllPending ==
    LET pendingPayments == {m \in PaidMembers : ~paid[m]}
    IN /\ pendingPayments # {}
       /\ \E done \in SUBSET pendingPayments : updatePaymentStatus(done, TRUE)
       /\ lastOp' = [op |-> "verify all", member |-> None]
       /\ UNCHANGED <<monitoring, later, dibs, ledger, potentialDuplicates, payoutCalc>>

\* ------------------------------------------------------- report pages
\* warReportCommands.ts, handleWarReportButton (the same code is in
\* warReport.ts, lines 845-1125).
\* line 85
PageSize == 10
ReportMessages == {1, 2}
\* the sizes of the reports on display; line 78 admits no empty report
EntryCounts == {n \in {1, 10, 11, 25, 31} : n <= MaxReportEntries}
\* lines 84-86 and 138-143: the state stored when a report is sent
NewReport(count) == [entryCount |-> count, currentPage |-> 0, pageSize |-> PageSize]
\* line 172: Math.ceil(entries.length / pageSize)
totalPages(report) == (report.entryCount + report.pageSize - 1) \div report.pageSize
\* the buttons whose id starts with warreport_ and that name a page; an id
\* no case names stands for the others
CustomIds == {"warreport_first", "warreport_prev", "warreport_next",
              "warreport_last", "warreport_page"}
\* lines 180-194: the local currentPage after the cases of the switch
pageAfter(report, customId) ==
    CASE customId = "warreport_first" -> 0
      [] customId = "warreport_prev" -> Max({0, report.currentPage - 1})
      [] customId = "warreport_next" ->
             Min({totalPages(report) - 1, report.currentPage + 1})
      [] customId = "warreport_last" -> totalPages(report) - 1
      [] OTHER -> report.currentPage
\* a case of lines 180-194 ends with break, which leaves the switch: the
\* store and the update of lines 402-425 belong to the default case
ReachesDefault(customId) ==
    customId \notin {"warreport_first", "warreport_prev", "warreport_next",
                     "warreport_last"}

NoPress == [message |-> None, customId |-> "none", rendered |-> None]

\* lines 158-425: a navigation button of the report of message msg is pressed
handleWarReportButton(msg, customId) ==
    LET report == activeReports[msg]
        currentPage == pageAfter(report, customId)
    IN /\ IF ReachesDefault(customId)
          THEN /\ activeReports' =
                    [activeReports EXCEPT ![msg].currentPage = currentPage]
               /\ navPress' = [message |-> msg, customId |-> customId,
                               rendered |-> currentPage + 1]
          ELSE /\ UNCHANGED activeReports
               /\ navPress' = [message |-> msg, customId |-> customId,
                               rendered |-> None]
       /\ UNCHANGED <<monitoring, earlier, csv, store>>

\* ------------------------------------------------------- the CSV parser
\* warReportUtils.ts, parseWarReportCSV.  A file is its header names and its
\* rows; a row is the cells lines 31-47 split it into, and <<>> is a line
\* that is blank.
\* lines 50-55: the record of a row, a value for every header the row reaches
RowRecord(headers, values) ==
    [h \in {headers[i] : i \in 1..Min({Len(headers), Len(values)})} |->
        values[CHOOSE i \in 1..Len(values) : i <= Len(headers) /\ headers[i] = h]]
\* line 58: record.Member.match throws when the record has no Member
Throws(headers, values) == "Member" \notin DOMAIN RowRecord(headers, values)
\* lines 58-62: id and name are added when Member holds a bracketed id
WithId(record) ==
    IF HasBracketId(record.Member)
    THEN [h \in DOMAIN record \cup {"id", "name"} |->
            IF h = "id" THEN toString(BracketValue(record.Member[FirstBracket(record.Member)]))
            ELSE IF h = "name" THEN SubSeq(record.Member, 1, FirstBracket(record.Member) - 1)
            ELSE record[h]]
    ELSE record
\* line 65: parseInt(record.Total_Payout?.replace(/,/g, '') || '0')
paymentAmount(record) ==
    IF "Total_Payout" \in DOMAIN record /\ RemoveCommas(record.Total_Payout) # <<>>
    THEN parseInt(RemoveCommas(record.Total_Payout))
    ELSE Num(0)
\* line 66: paymentAmount <= 0, which is false for NaN
SkipsPayment(record) ==
    ~paymentAmount(record).nan /\ paymentAmount(record).value <= 0
RECURSIVE recordsFrom(_, _, _)
\* lines 27-69: the records pushed from row i on
recordsFrom(headers, rows, i) ==
    IF i > Len(rows) THEN <<>>
    ELSE IF rows[i] = <<>> \/ SkipsPayment(WithId(RowRecord(headers, rows[i])))
         THEN recordsFrom(headers, rows, i + 1)
         ELSE <<WithId(RowRecord(headers, rows[i]))>> \o recordsFrom(headers, rows, i + 1)
\* lines 17-76: an exception anywhere is caught and [] is returned
parseWarReportCSV(file) ==
    IF \E i \in 1..Len(file.rows) :
          file.rows[i] # <<>> /\ Throws(file.headers, file.rows[i])
    THEN <<>>
    ELSE recordsFrom(file.headers, file.rows, 1)

\* the files that are uploaded: the two columns in either order, and rows of
\* one or two cells
UploadHeaders == {<<"Member", "Total_Payout">>, <<"Total_Payout", "Member">>}
Cells == {<<"A", "b", "[1]">>, <<"b", "[2]">>, <<"1", "0">>, <<"1", ",", "1">>,
          <<"x">>, <<"0">>}
Rows == {<<>>} \cup {<<a>> : a \in Cells} \cup {<<a, b>> : a, b \in Cells}
UploadedFiles ==
    {[headers |-> headers, rows |-> rows] :
        headers \in UploadHeaders,
        rows \in UNION {[1..n -> Rows] : n \in 0..MaxRows}}

NoFile == [headers |-> <<>>, rows |-> <<>>]
NotParsed == [ran |-> FALSE, records |-> <<>>]

\* warReportCommands.ts line 76: the uploaded file is parsed
parseUpload ==
    /\ csvContent.headers # <<>>
    /\ ~parsed.ran
    /\ parsed' = [ran |-> TRUE, records |-> parseWarReportCSV(csvContent)]
    /\ UNCHANGED <<monitoring, earlier, display, csvContent, store>>

\* rwPayoutCommand.ts lines 322-353: the export of the payout command.  Of
\* its nine columns the five that hold the counters and the points are left
\* out here.
ExportHeaders == <<"Member ID", "Member Name", "Payment Amount", "Status">>
\* lines 335-337
StatusOf(entry, verifiedPayments) ==
    IF entry.id \in DOMAIN verifiedPayments /\ verifiedPayments[entry.id].verified
    THEN <<"PAID">> ELSE <<"PENDING">>
\* lines 334-350: the row of an entry
ExportRow(entry, verifiedPayments) ==
    <<toString(entry.id), entry.Member, entry.Total_Payout,
      StatusOf(entry, verifiedPayments)>>
exportPayout ==
    /\ verification.ran
    /\ csvContent = NoFile
    /\ csvContent' =
          [headers |-> ExportHeaders,
           rows |-> [i \in 1..Len(entries) |->
                        ExportRow(entries[i], verification.verifiedPayments)]]
    /\ UNCHANGED <<monitoring, earlier, display, parsed, store>>

\* ------------------------------------------------------- the store
\* The tables of one war W: war_payouts and war_member_payouts (tsconfig.json,
\* the payout repository), war_reports and member_contributions
\* (warReportRepository.ts). A table of member rows is a partial map from
\* member_id, the part of its conflict key that varies within one war.
\* tsconfig.json lines 155-197: the summary of W and its member rows, or
\* nothing when there is no summary; null is the empty set of rows
getPayoutByWarId ==
    IF warPayouts = {}
    THEN [summary |-> {}, members |-> EmptyMap]
    ELSE [summary |-> warPayouts, members |-> memberPayouts]

\* batchSize: warReportRepository.ts line 143, tsconfig.json lines 126, 208
batchSize(fn) ==
    CASE fn = "saveMemberContributions" -> 20
      [] fn = "saveWarMemberPayouts" -> 50
      [] fn = "updatePaymentStatus" -> 25
\* Array.prototype.slice(from, to), from counted from 0, to excluded
slice(records, from, to) == SubSeq(records, from + 1, Min({to, Len(records)}))
\* upsert with ignoreDuplicates: true: a row whose key is taken is left out
upsertIgnoringDuplicates(rows, batch) ==
    LET keys == {batch[x].member_id : x \in 1..Len(batch)}
        rowOf(k) == batch[Max({x \in 1..Len(batch) : batch[x].member_id = k})]
    IN [k \in DOMAIN rows \cup keys |->
          IF k \in DOMAIN rows THEN rows[k] ELSE rowOf(k).row]
\* upsert with onConflict on the key and ignoreDuplicates: false: a row of
\* the batch replaces the row of its key or is added
upsert(rows, batch) ==
    LET keys == {batch[x].member_id : x \in 1..Len(batch)}
        rowOf(k) == batch[Max({x \in 1..Len(batch) : batch[x].member_id = k})]
    IN [k \in DOMAIN rows \cup keys |->
          IF k \in keys THEN rowOf(k).row ELSE rows[k]]
\* update ... eq(member_id): the paid flag of the row of a member, if any
updateRow(rows, update) ==
    [k \in DOMAIN rows |->
        IF k = update.member_id
        THEN [rows[k] EXCEPT !.paid = update.row.paid] ELSE rows[k]]

\* the rows stored before a write: value 1 marks what an earlier write left
OldContribution == [war_hits |-> 1]
OldPayout == [payment_amount |-> 1, paid |-> FALSE]
\* the records of a write, one per member 1..n
ContributionRecords(n) ==
    [i \in 1..n |-> [member_id |-> i, row |-> [war_hits |-> 2]]]
PayoutRecords(n) ==
    [i \in 1..n |-> [member_id |-> i,
                     row |-> [payment_amount |-> 2, paid |-> FALSE]]]
UpdateRecords(n) ==
    [i \in 1..n |-> [member_id |-> i, row |-> [paid |-> TRUE]]]
\* the lengths around the batch size of each write
ContributionLengths == {1, 20, 21, 41}
PayoutLengths == {1, 50, 51}
UpdateLengths == {1, 2, 3}
\* the members that have a row before the write
StoredBefore == {{}, {1}, {1, 21}, {2, 60}}

NoSave == [fn |-> "none", records |-> <<>>, i |-> 0, run |-> 0,
           requests |-> <<>>, result |-> "none", before |-> EmptyMap]
NewSave(fn, records, rows) ==
    [fn |-> fn, records |-> records, i |-> 0, run |-> 0,
     requests |-> <<>>, result |-> "none", before |-> rows]
\* a request of the write in progress: the records it carried and whether
\* the store answered without error
Request(from, to, ok) == [run |-> save.run, from |-> from, to |-> to, ok |-> ok]

\* the caller calls the write, for the first time or again
callSave ==
    /\ save.fn # "none"
    /\ save.result # "running"
    /\ save.run < MaxRuns
    /\ save' = [save EXCEPT !.i = 0, !.run = @ + 1, !.result = "running"]
    /\ UNCHANGED <<monitoring, earlier, display, csv, tables, generation>>

\* warReportRepository.ts lines 144-190: one turn of the loop; an error of
\* the request is logged and the loop goes on
saveMemberContributionsBatch ==
    /\ save.fn = "saveMemberContributions" /\ save.result = "running"
    /\ save.i < Len(save.records)
    /\ LET batch == slice(save.records, save.i,
                          save.i + batchSize("saveMemberContributions"))
       IN \E ok \in BOOLEAN :
            /\ memberContributions' =
                  IF ok THEN upsert(memberContributions, batch)
                  ELSE memberContributions
            /\ save' = [save EXCEPT
                  !.i = @ + batchSize("saveMemberContributions"),
                  !.requests = Append(@, Request(save.i + 1,
                                                 save.i + Len(batch), ok))]
    /\ UNCHANGED <<monitoring, earlier, display, csv, warPayouts,
                   memberPayouts, warReport, generation>>

\* tsconfig.json lines 127-143: one turn of the loop; an error of the request
\* is thrown at line 142, caught at line 146, and the write returns false
saveWarMemberPayoutsBatch ==
    /\ save.fn = "saveWarMemberPayouts" /\ save.result = "running"
    /\ save.i < Len(save.records)
    /\ LET batch == slice(save.records, save.i,
                          save.i + batchSize("saveWarMemberPayouts"))
       IN \E ok \in BOOLEAN :
            /\ memberPayouts' =
                  IF ok THEN upsert(memberPayouts, batch) ELSE memberPayouts
            /\ save' = [save EXCEPT
                  !.i = @ + batchSize("saveWarMemberPayouts"),
                  !.requests = Append(@, Request(save.i + 1,
                                                 save.i + Len(batch), ok)),
                  !.result = IF ok THEN "running" ELSE "false"]
    /\ UNCHANGED <<monitoring, earlier, display, csv, warPayouts,
                   memberContributions, warReport, generation>>

\* tsconfig.json lines 209-227: the update of one member; its error is
\* thrown at line 225, caught at line 230, and the write returns false. The
\* batches of line 210 are walked row by row, so the rows are updated in
\* their order.
updatePaymentStatusRow ==
    /\ save.fn = "updatePaymentStatus" /\ save.result = "running"
    /\ save.i < Len(save.records)
    /\ \E ok \in BOOLEAN :
         /\ memberPayouts' =
               IF ok THEN updateRow(memberPayouts, save.records[save.i + 1])
               ELSE memberPayouts
         /\ save' = [save EXCEPT
               !.i = @ + 1,
               !.requests = Append(@, Request(save.i + 1, save.i + 1, ok)),
               !.result = IF ok THEN "running" ELSE "false"]
    /\ UNCHANGED <<monitoring, earlier, display, csv, warPayouts,
                   memberContributions, warReport, generation>>

\* warReportRepository.ts line 192, tsconfig.json lines 145 and 229: the
\* loop is over and the write returns true
saveReturns ==
    /\ save.result = "running"
    /\ save.i >= Len(save.records)
    /\ save' = [save EXCEPT !.result = "true"]
    /\ UNCHANGED <<monitoring, earlier, display, csv, tables, generation>>

\* ------------------------------------------------------- war report generation
\* warReportGenerator.ts: "!warreport generate" for the war W. An attack is
\* the member id of its attacker; every attack is a hit of our faction on the
\* opponent that counts as a war hit.
\* the members the member list holds
Roster == {1, 2}
\* the attack log of the war: the pages the API serves, each with its attacks
AttackLogs == {<<>>, <<<<1>>>>, <<<<1, 2>>, <<1>>>>, <<<<3, 1>>, <<2>>>>}
\* the requests fetchAllAttackLogs makes for a log: one per page, and one
\* that finds nothing when the log is empty (lines 214-232)
PageRequests(pages) == Max({1, Len(pages)})
RECURSIVE Flatten(_)
Flatten(pages) ==
    IF pages = <<>> THEN <<>> ELSE Head(pages) \o Flatten(Tail(pages))
\* lines 134-163: the map of the members, empty when the request failed
fetchFactionMembers(membersOk) == IF membersOk THEN Roster ELSE {}
\* lines 207-264: the attacks of all pages; when the request of a page fails
\* the error is caught at line 260 and the result is []
fetchAllAttackLogs(pages, failedPage) ==
    IF failedPage # 0 THEN <<>> ELSE Flatten(pages)
\* lines 272-400: a row for every member, and for every attacker, with the
\* war hits counted
processAttacks(attacks, members) ==
    LET attackers == {attacks[x] : x \in 1..Len(attacks)}
    IN [id \in members \cup attackers |->
          [war_hits |-> Cardinality({x \in 1..Len(attacks) : attacks[x] = id})]]
\* the null of line 409
NoReport == [found |-> FALSE, contributions |-> EmptyMap, totalHits |-> 0]
\* lines 405-452: the report, or null without the war data
generateWarReport(warOk, membersOk, pages, failedPage) ==
    IF ~warOk THEN NoReport
    ELSE LET attacks == fetchAllAttackLogs(pages, failedPage)
         IN [found |-> TRUE,
             contributions |->
                processAttacks(attacks, fetchFactionMembers(membersOk)),
             totalHits |-> Len(attacks)]
\* the records handed to saveMemberContributions (lines 568-584)
RecordsOf(rows) ==
    LET RECURSIVE list(_)
        list(ids) ==
            IF ids = {} THEN <<>>
            ELSE <<[member_id |-> Min(ids), row |-> rows[Min(ids)]]>>
                   \o list(ids \ {Min(ids)})
    IN list(DOMAIN rows)

NotGenerated == [count |-> 0, warOk |-> TRUE, membersOk |-> TRUE,
                 pages |-> <<>>, failedPage |-> 0, saved |-> FALSE]
\* the report of the whole log and the rows it leaves in the store
FullReport(pages) == generateWarReport(TRUE, TRUE, pages, 0)

\* lines 503-590 of handleGenerateWarReport: the report is generated and,
\* unless it is null, its summary and its contributions are saved; the
\* request of either save may fail (warReportRepository.ts lines 107, 176)
handleGenerateWarReport(warOk, membersOk, pages, failedPage) ==
    LET report == generateWarReport(warOk, membersOk, pages, failedPage)
    IN /\ generation.count < MaxGenerations
       /\ generation' = [count |-> generation.count + 1, warOk |-> warOk,
                         membersOk |-> membersOk, pages |-> pages,
                         failedPage |-> failedPage, saved |-> report.found]
       /\ IF ~report.found
          THEN UNCHANGED <<warReport, memberContributions>>
          ELSE \E summaryOk, rowsOk \in BOOLEAN :
                 /\ warReport' = IF summaryOk
                                 THEN {[total_hits |-> report.totalHits]}
                                 ELSE warReport
                 /\ memberContributions' =
                       IF rowsOk /\ DOMAIN report.contributions # {}
                       THEN upsert(memberContributions,
                                   RecordsOf(report.contributions))
                       ELSE memberContributions
       /\ UNCHANGED <<monitoring, earlier, display, csv, warPayouts,
                      memberPayouts, save>>

\* ------------------------------------------------------- specification
\* lines 24-38: the state after the module is loaded
InitMonitor ==
    /\ isActive = FALSE
    /\ intervalId = None
    /\ maxHospitalTime = 300
    /\ playerMessages = EmptyMap
    /\ headerMessageId = None
    /\ footerMessageId = None
    /\ channel = {}
    /\ nextId = 1
    /\ timers = {}
    /\ nextTimer = 1
    /\ fetches = 0
    /\ cyc = [c \in Cycles |-> IdleCycle]
    /\ startCmd = "idle"
    /\ stopCmd = IdleStop
    /\ dibsRegistry = EmptyMap
    /\ dibsReply = NoReply

\* no report has been made
InitLedger ==
    /\ entries = <<>>
    /\ paymentData = <<>>
    /\ verification = NotVerified
    /\ potentialDuplicates = NotAudited
    /\ config = EmptyMap
    /\ totalRwCash = 0
    /\ contributions = <<>>
    /\ payoutRun = NotComputed
    /\ paid = [m \in PaidMembers |-> FALSE]
    /\ lastOp = [op |-> "none", member |-> None]

\* nothing is stored, written or generated
InitStore ==
    /\ warPayouts = {}
    /\ memberPayouts = EmptyMap
    /\ warReport = {}
    /\ memberContributions = EmptyMap
    /\ save = NoSave
    /\ generation = NotGenerated

\* no report is on display
InitLater ==
    /\ activeReports = EmptyMap
    /\ navPress = NoPress
    /\ csvContent = NoFile
    /\ parsed = NotParsed
    /\ InitStore

Init == InitMonitor /\ InitLedger /\ InitLater

Next ==
    \/ \E t \in MaxTimes, b \in BOOLEAN : StartBegin(t, b)
    \/ StartLaunch
    \/ StartNoWar
    \/ StopBegin
    \/ StopInactive
    \/ StopReplied
    \/ StopReplyThrows
    \/ \E id \in 1..MaxSends : StopDeleteOk(id)
    \/ \E id \in 1..MaxSends : StopDeleteFail(id)
    \/ TimerFire
    \/ \E c \in Cycles : FetchOk(c)
    \/ \E c \in Cycles : FetchFail(c)
    \/ \E c \in Cycles : HeaderOk(c)
    \/ \E c \in Cycles : SendThrows(c)
    \/ \E c \in Cycles, m \in Members : DeleteOk(c, m)
    \/ \E c \in Cycles, m \in Members : DeleteFail(c, m)
    \/ \E c \in Cycles : EditOk(c)
    \/ \E c \in Cycles : EditFail(c)
    \/ \E c \in Cycles : SendOk(c)
    \/ \E c \in Cycles : FooterOk(c)
    \/ \E c \in Cycles : CleanupHeaderOk(c)
    \/ \E c \in Cycles : CleanupHeaderFail(c)
    \/ \E c \in Cycles : CleanupFooterOk(c)
    \/ \E c \in Cycles : CleanupFooterFail(c)
    \/ \E c \in Cycles : CycleSettled(c)

Spec == Init /\ [][Next]_vars

\* the claim buttons alone
NextDibs == \E u \in Users, m \in DibsPlayers : handleDibsButton(u, m)
SpecDibs == Init /\ [][NextDibs]_vars

\* one report and one feed, verified
InitVerify ==
    /\ InitMonitor
    /\ entries \in EntryLists
    /\ paymentData \in Feeds
    /\ verification = NotVerified
    /\ potentialDuplicates = NotAudited
    /\ config = EmptyMap /\ totalRwCash = 0 /\ contributions = <<>>
    /\ payoutRun = NotComputed
    /\ paid = [m \in PaidMembers |-> FALSE]
    /\ lastOp = [op |-> "none", member |-> None]
    /\ InitLater
NextVerify == RunVerify
SpecVerify == InitVerify /\ [][NextVerify]_vars

\* one feed, audited
InitAudit ==
    /\ InitMonitor
    /\ entries = <<>>
    /\ paymentData \in AuditFeeds
    /\ verification = NotVerified
    /\ potentialDuplicates = NotAudited
    /\ config = EmptyMap /\ totalRwCash = 0 /\ contributions = <<>>
    /\ payoutRun = NotComputed
    /\ paid = [m \in PaidMembers |-> FALSE]
    /\ lastOp = [op |-> "none", member |-> None]
    /\ InitLater
NextAudit == handleVerifyAllPayments
SpecAudit == InitAudit /\ [][NextAudit]_vars

\* one stored configuration, one cash amount and the contributions of one
\* war, and the payout computed from them
InitPayout ==
    /\ InitMonitor
    /\ entries = <<>> /\ paymentData = <<>> /\ verification = NotVerified
    /\ potentialDuplicates = NotAudited
    /\ config \in Configs
    /\ totalRwCash \in CashAmounts
    /\ contributions \in ContributionLists
    /\ payoutRun = NotComputed
    /\ paid = [m \in PaidMembers |-> FALSE]
    /\ lastOp = [op |-> "none", member |-> None]
    /\ InitLater
NextPayout == computePayout
SpecPayout == InitPayout /\ [][NextPayout]_vars

\* a stored payout: used again, and marked by the operator
NextPaid ==
    \/ \E feed \in LaterFeeds : useExistingPayout(feed)
    \/ \E action \in {"verify", "unverify"}, m \in PaidMembers :
          handlePaymentVerification(action, m)
    \/ verifyAllPending
SpecPaid == Init /\ [][NextPaid]_vars

\* two reports on display and the presses of their navigation buttons
InitPages ==
    /\ InitMonitor /\ InitLedger
    /\ activeReports \in {[msg \in ReportMessages |-> NewReport(count[msg])] :
                              count \in [ReportMessages -> EntryCounts]}
    /\ navPress = NoPress
    /\ csvContent = NoFile /\ parsed = NotParsed
    /\ InitStore
NextPages ==
    \E msg \in ReportMessages, customId \in CustomIds :
        handleWarReportButton(msg, customId)
SpecPages == InitPages /\ [][NextPages]_vars

\* one uploaded file, parsed
InitUpload ==
    /\ InitMonitor /\ InitLedger
    /\ activeReports = EmptyMap /\ navPress = NoPress
    /\ csvContent \in UploadedFiles
    /\ parsed = NotParsed
    /\ InitStore
NextUpload == parseUpload
SpecUpload == InitUpload /\ [][NextUpload]_vars

\* the entries of a payout are verified, exported, and the export is parsed
InitExport ==
    /\ InitMonitor /\ InitLater
    /\ entries \in ListsOf(PayoutEntries)
    /\ paymentData \in LaterFeeds
    /\ verification = NotVerified
    /\ potentialDuplicates = NotAudited
    /\ config = EmptyMap /\ totalRwCash = 0 /\ contributions = <<>>
    /\ payoutRun = NotComputed
    /\ paid = [m \in PaidMembers |-> FALSE]
    /\ lastOp = [op |-> "none", member |-> None]
NextExport == RunVerify \/ exportPayout \/ parseUpload
SpecExport == InitExport /\ [][NextExport]_vars

\* one batched write of the records of one war, called and called again
InitStoreWrite ==
    /\ InitMonitor /\ InitLedger
    /\ activeReports = EmptyMap /\ navPress = NoPress
    /\ csvContent = NoFile /\ parsed = NotParsed
    /\ warPayouts = {} /\ warReport = {}
    /\ generation = NotGenerated
    /\ \E before \in StoredBefore :
         \/ /\ memberContributions = [k \in before |-> OldContribution]
            /\ memberPayouts = EmptyMap
            /\ \E n \in ContributionLengths :
                  save = NewSave("saveMemberContributions",
                                 ContributionRecords(n), memberContributions)
         \/ /\ memberContributions = EmptyMap
            /\ memberPayouts = [k \in before |-> OldPayout]
            /\ \/ \E n \in PayoutLengths :
                     save = NewSave("saveWarMemberPayouts", PayoutRecords(n),
                                    memberPayouts)
               \/ \E n \in UpdateLengths :
                     save = NewSave("updatePaymentStatus", UpdateRecords(n),
                                    memberPayouts)
NextStore ==
    \/ callSave
    \/ saveMemberContributionsBatch
    \/ saveWarMemberPayoutsBatch
    \/ updatePaymentStatusRow
    \/ saveReturns
SpecStore == InitStoreWrite /\ [][NextStore]_vars

\* the war report of W, stored or not, and its generation
InitGenerate ==
    /\ InitMonitor /\ InitLedger
    /\ activeReports = EmptyMap /\ navPress = NoPress
    /\ csvContent = NoFile /\ parsed = NotParsed
    /\ warPayouts = {} /\ memberPayouts = EmptyMap
    /\ save = NoSave
    /\ generation = NotGenerated
    /\ \/ warReport = {} /\ memberContributions = EmptyMap
       \/ \E pages \in AttackLogs :
             /\ warReport = {[total_hits |-> FullReport(pages).totalHits]}
             /\ memberContributions = FullReport(pages).contributions
NextGenerate ==
    \E warOk, membersOk \in BOOLEAN, pages \in AttackLogs :
      \E failedPage \in 0..PageRequests(pages) :
        handleGenerateWarReport(warOk, membersOk, pages, failedPage)
SpecGenerate == InitGenerate /\ [][NextGenerate]_vars

\* ------------------------------------------------------------ properties
Tracked == DOMAIN playerMessages
\* the members the roster of call c classifies as showable
Showable(c) == {m \in Members : cyc[c].shown[m] # "none"}
\* the undeleted alerts of member m, the undeleted headers and footers
Alerts(m) == {x \in channel : x.kind = "alert" /\ x.member = m}
Headers == {x \in channel : x.kind = "header"}
Footers == {x \in channel : x.kind = "footer"}
\* the calls in progress
Running == {c \in Cycles : cyc[c].pc \notin {"idle", "done"}}
\* call c has returned after a roster fetch that succeeded
Ended(c) == cyc[c].pc = "done" /\ cyc[c].fetched
\* call c was started by the timer and is the only call or command in flight,
\* monitoring is active, and none of its operations has failed
Steady(c) ==
    /\ ~cyc[c].initial /\ isActive /\ InFlight = 1
    /\ ~cyc[c].aborted /\ cyc[c].failed = {}

\* C1: at the end of every cycle whose roster fetch succeeded, the members
\* with a tracked alert are exactly the roster members classified as
\* showable.  Stated for the cycles the timer starts in which nothing failed
\* and nothing else is in flight.
C1_TrackedEqualsShowable ==
    \A c \in Cycles :
        Ended(c) /\ Steady(c) => Tracked = Showable(c)

\* C2: every member has at most one undeleted alert in the channel, and that
\* alert is the one the tracking map records for the member.
C2_OneTrackedAlert ==
    \A m \in Members :
        /\ Cardinality(Alerts(m)) <= 1
        /\ \A x \in Alerts(m) :
              m \in Tracked /\ playerMessages[m].messageId = x.id

\* C3: the stop command, once it has replied, issues a delete for every
\* message the tracking data held when the command was given: every tracked
\* alert, the header and the footer.
C3_StopDeletesTracked ==
    [][stopCmd.pc = "reply" /\ stopCmd'.pc # "reply"
         => stopCmd.tracked \subseteq stopCmd'.pending]_vars

\* C4: at most one monitoring cycle is in progress at any time.  Stated for
\* the cycles the timer starts: the next one does not start before the
\* current one has settled.
C4_OneCycleInProgress ==
    Cardinality({c \in Running : ~cyc[c].initial}) <= 1

\* C5: a member that is tracked and classified as showable has its alert
\* edited in place: no delete is issued for it.  Stated for the cycles the
\* timer starts with a header and a footer recorded and nothing else in
\* flight.
C5_ShowableNotDeleted ==
    \A c \in Cycles : \A m \in Members :
        /\ cyc[c].fetched /\ Steady(c)
        /\ headerMessageId # None /\ footerMessageId # None
        /\ cyc[c].prev[m] # "none" /\ cyc[c].shown[m] # "none"
        => cyc[c].dels[m] = 0

\* C6: when a member tracked as "hospital" is on the fetched roster and no
\* longer showable, exactly one delete is issued for its message in that
\* cycle and the member has no tracking entry when the cycle ends.
C6_HospitalAlertDeleted ==
    \A c \in Cycles : \A m \in Members :
        /\ Ended(c)
        /\ cyc[c].prev[m] = "hospital" /\ cyc[c].shown[m] = "none"
        /\ m \notin cyc[c].gone
        => cyc[c].dels[m] = 1 /\ m \notin Tracked

\* C7: when the roster fetch of a cycle fails, the cycle sends, edits and
\* deletes nothing and leaves the tracking map, the header id and the footer
\* id as they were.
C7_FetchFailureChangesNothing ==
    [][\A c \in Cycles :
         cyc[c].pc = "fetch" /\ cyc'[c].pc = "done" /\ ~cyc'[c].fetched
           => /\ UNCHANGED <<playerMessages, headerMessageId, footerMessageId>>
              /\ UNCHANGED <<channel, nextId>>
              /\ cyc'[c].sends = Zero /\ cyc'[c].edits = Zero
              /\ cyc'[c].dels = Zero]_vars

\* a cycle whose fetch failed has returned while alerts, a header and a
\* footer are tracked
C7_Witness ==
    \E c \in Cycles :
        /\ cyc[c].pc = "done" /\ ~cyc[c].fetched
        /\ Tracked # {} /\ headerMessageId # None /\ footerMessageId # None

\* C8: the failure of one member's send, edit or delete does not abort the
\* cycle: the members after it are still processed.
C8_FailureDoesNotAbort ==
    \A c \in Cycles :
        cyc[c].pc = "done" /\ cyc[c].failed # {} => cyc[c].todo = {}

\* a member's edit or delete fails for the first time in call c
DeleteFails(c, m) ==
    /\ cyc[c].pc = "delete" /\ m \in DOMAIN cyc[c].delPending
    /\ m \in cyc'[c].failed \ cyc[c].failed
EditFails(c, m) ==
    /\ cyc[c].pc = "edit" /\ cyc[c].idx = m
    /\ m \in cyc'[c].failed \ cyc[c].failed

NoUpdateAfterDelete ==
    \A c \in Cycles : \A m \in Members :
        cyc[c].dels[m] > 0
          => cyc[c].sends[m] = 0 /\ cyc[c].edits[m] = 0 /\ m \notin cyc[c].todo

\* the steps of call c after a failure
FailureSteps ==
    \A c \in Cycles : \A m \in Members :
        /\ DeleteFails(c, m)
             => /\ m \notin DOMAIN playerMessages'
                /\ UNCHANGED <<channel, nextId>>
        /\ EditFails(c, m)
             => /\ cyc'[c].pc = "resend" /\ cyc'[c].idx = m
                /\ cyc'[c].sends[m] = cyc[c].sends[m] + 1
                /\ UNCHANGED <<playerMessages, channel, nextId>>
        /\ cyc[c].pc = "resend" /\ cyc[c].idx = m /\ cyc'[c].pc # "resend"
             => IF cyc'[c].aborted
                THEN UNCHANGED <<playerMessages, channel, nextId>>
                ELSE /\ m \in DOMAIN playerMessages'
                     /\ playerMessages'[m].messageId = nextId
                     /\ Msg(nextId, "alert", m) \in channel' \ channel

C10_HeaderFooterIffTracked ==
    \A c \in Cycles :
        Ended(c) /\ ~cyc[c].aborted
          => /\ (headerMessageId # None /\ footerMessageId # None)
                   <=> Tracked # {}
             /\ Cardinality(Headers) <= 1
             /\ Cardinality(Footers) <= 1

\* C11: whether a roster member is shown, and with which tag, depends on its
\* status, time remaining and level only: needsUpdate is the same with and
\* without a tracking entry for the member.
C11_ClassificationIgnoresTracking ==
    \A m \in Members : \A now \in Nows : \A p \in Players(now) \ {Absent} :
        needsUpdate(m, p, now, playerMessages) <=> Shown(p, now) # "none"

\* the registry changes as the exclusive lock prescribes for the press
\* recorded in dibsReply'
LockStep ==
    LET u == dibsReply'.user
        m == dibsReply'.player
    IN /\ \A k \in DibsPlayers \ {m} :
             /\ k \in DOMAIN dibsRegistry' <=> k \in DOMAIN dibsRegistry
             /\ k \in DOMAIN dibsRegistry => dibsRegistry'[k] = dibsRegistry[k]
       /\ IF m \notin DOMAIN dibsRegistry
          THEN /\ m \in DOMAIN dibsRegistry' /\ dibsRegistry'[m].userId = u
               /\ dibsReply'.text = "claimed"
          ELSE IF dibsRegistry[m].userId = u
          THEN m \notin DOMAIN dibsRegistry' /\ dibsReply'.text = "released"
          ELSE /\ m \in DOMAIN dibsRegistry' /\ dibsRegistry'[m] = dibsRegistry[m]
               /\ dibsReply'.text = "already claimed"

\* C12: a press by user U on member M claims M for U when M is unclaimed,
\* releases the claim when U holds it and changes nothing when another user
\* holds it; a claim is only ever removed by the user who holds it.
C12_ExclusiveLock ==
    [][/\ LockStep
       /\ \A m \in DOMAIN dibsRegistry :
             m \notin DOMAIN dibsRegistry' \/ dibsRegistry'[m] # dibsRegistry[m]
               => dibsReply'.user = dibsRegistry[m].userId]_dibs

\* a user has pressed the button of a member another user holds
C12_Witness ==
    /\ dibsReply.text = "already claimed"
    /\ dibsReply.player \in DOMAIN dibsRegistry
    /\ dibsRegistry[dibsReply.player].userId # dibsReply.user
    /\ Cardinality(DOMAIN dibsRegistry) >= 2

\* the match of the claim: the text follows the template, the amounts are the
\* same number, and one lower-cased name contains the other
ClaimedMatch(entry, payment) ==
    /\ payment.increased
    /\ LET N == parseInt(RemoveCommas(payment.amountStr))
           X == parseInt(RemoveCommas(entry.Total_Payout))
       IN ~N.nan /\ ~X.nan /\ N.value = X.value
    /\ \/ includes(toLowerCase(payment.recipient), toLowerCase(entry.name))
       \/ includes(toLowerCase(entry.name), toLowerCase(payment.recipient))
\* the feed items that match entry i in that sense
MatchingItems(i) ==
    {j \in 1..Len(paymentData) : ClaimedMatch(entries[i], paymentData[j])}
\* the entries verifyPaymentsWithDoubleCheck does not skip
CheckedEntries == {i \in 1..Len(entries) : Checked(entries[i])}

\* C13: a transaction matches an expected payout exactly when it follows the
\* template, its amount equals the expected amount and the names match in
\* one direction; so a payout is verified exactly when such a transaction is
\* in the feed, and a transaction for X + 1 does not verify a payout of X.
C13_MatchIsExact ==
    verification.ran =>
      \A i \in CheckedEntries :
        /\ verification.verifiedPayments[entries[i].id].verified
             <=> MatchingItems(i) # {}
        /\ (\A j \in 1..Len(paymentData) :
              paymentData[j].increased =>
                parseInt(RemoveCommas(paymentData[j].amountStr)).value
                  = parseInt(RemoveCommas(entries[i].Total_Payout)).value + 1)
             => ~verification.verifiedPayments[entries[i].id].verified

\* a payout of 10 is left unverified by a feed that pays 11 to the same name
C13_Witness ==
    /\ verification.ran
    /\ \E i \in CheckedEntries :
         /\ ~verification.verifiedPayments[entries[i].id].verified
         /\ \E j \in 1..Len(paymentData) :
              /\ paymentData[j].increased
              /\ toLowerCase(paymentData[j].recipient) = toLowerCase(entries[i].name)
              /\ parseInt(RemoveCommas(paymentData[j].amountStr)).value
                   = parseInt(RemoveCommas(entries[i].Total_Payout)).value + 1

\* the (admin, timestamp) pair of feed item j
PairOf(j) == [admin |-> paymentData[j].admin, timestamp |-> paymentData[j].timestamp]
\* the record of entry i names a matching transaction of maximal timestamp
NamesMostRecent(i, record) ==
    \E j \in MatchingItems(i) :
        /\ record.verifiedBy = paymentData[j].admin
        /\ record.timestamp = paymentData[j].timestamp
        /\ \A k \in MatchingItems(i) : paymentData[k].timestamp <= paymentData[j].timestamp
\* list holds the pairs of the matching transactions of entry i, each as many
\* times as it matches
HoldsMatchingPairs(i, list) ==
    /\ Len(list) = Cardinality(MatchingItems(i))
    /\ \A j \in MatchingItems(i) :
         Cardinality({x \in 1..Len(list) : list[x] = PairOf(j)})
           = Cardinality({k \in MatchingItems(i) : PairOf(k) = PairOf(j)})

C15_EveryPositivePayoutChecked ==
    verification.ran =>
      \A i \in 1..Len(entries) :
        /\ entries[i].id # None
        /\ Positive(parseInt(RemoveCommas(entries[i].Total_Payout)))
        => entries[i].id \in DOMAIN verification.verifiedPayments

\* the feed items that follow the template, carry the bracketed id and the amount
Carrying(id, amount) ==
    {j \in 1..Len(paymentData) :
        /\ paymentData[j].increased
        /\ \E i \in 1..Len(paymentData[j].recipient) :
             /\ paymentData[j].recipient[i] \in BracketIds
             /\ BracketValue(paymentData[j].recipient[i]) = id
        /\ AuditAmount(paymentData[j]) = amount}
\* the feed items counted in the reported duplicate d
CountedIn(d) ==
    {j \in 1..Len(paymentData) :
        /\ paymentData[j].increased
        /\ AuditId(paymentData[j].recipient) = d.id
        /\ AuditAmount(paymentData[j]) = d.amount}

\* C16: the audit reports a duplicate for (recipient id, amount) exactly when
\* more than one transaction that follows the template carries that bracketed
\* id and that amount, with that number as its count; and the transactions
\* counted in one reported duplicate all went to the same recipient (for a
\* duplicate reported without a bracketed id: to the same recipient text).
C16_DuplicatesPerRecipient ==
    potentialDuplicates.ran =>
      /\ \A id \in {1, 2} : \A amount \in {AuditAmount(x) : x \in AuditItems \ {OtherNews(1)}} :
           Cardinality(Carrying(id, amount)) > 1
             <=> \E d \in potentialDuplicates.found :
                  /\ d.id = toString(id) /\ d.amount = amount
                  /\ d.count = Cardinality(Carrying(id, amount))
      /\ \A d \in potentialDuplicates.found :
           /\ d.count > 1
           /\ \A j, k \in CountedIn(d) :
                \/ paymentData[j].recipient = paymentData[k].recipient
                \/ /\ HasBracketId(paymentData[j].recipient)
                   /\ HasBracketId(paymentData[k].recipient)

\* the payment computed for the member of row i, and the sum of them up to i
PaymentOf(i) == parseInt(payoutRun.mapped[i].Total_Payout).value
RECURSIVE PaymentsUpTo(_)
PaymentsUpTo(i) == IF i = 0 THEN 0 ELSE PaymentOf(i) + PaymentsUpTo(i - 1)
\* the points of row i by the formula of the claim, in tenths, and their sum
PointsOf(i) ==
    contributions[i].war_hits * payoutRun.rwHitMultiplier
      + contributions[i].under_respect_hits * payoutRun.hitMultiplier
      + contributions[i].non_war_hits * payoutRun.hitMultiplier
      + contributions[i].assists * payoutRun.assistMultiplier
RECURSIVE PointsUpTo(_)
PointsUpTo(i) == IF i = 0 THEN 0 ELSE PointsOf(i) + PointsUpTo(i - 1)
Abs(x) == IF x < 0 THEN -x ELSE x

\* C17: each payment is points * totalPayout / (sum of points) rounded to the
\* nearest integer, halves upwards; when the sum of points is positive the
\* payments add up to totalPayout within half a unit per member, and points
\* 10, 20, 30 with a pool of 600 paid out at 100% give 100, 200, 300; when the
\* sum of points is zero every payment is 0.
C17_PaymentsShareThePool ==
    payoutRun.ran =>
      LET n == Len(contributions)
          P == PointsUpTo(n)
      IN /\ Len(payoutRun.mapped) = n
         /\ P > 0 =>
              /\ \A i \in 1..n :
                   LET twice == 2 * (100 * P * PaymentOf(i) - PointsOf(i) * payoutRun.totalPayout)
                   IN -(100 * P) < twice /\ twice <= 100 * P
              /\ 2 * Abs(100 * PaymentsUpTo(n) - payoutRun.totalPayout) <= 100 * n
         /\ P = 0 => \A i \in 1..n : PaymentOf(i) = 0
         /\ ( /\ n = 3 /\ payoutRun.totalPayout = 100 * 600
              /\ PointsOf(1) = 100 /\ PointsOf(2) = 200 /\ PointsOf(3) = 300 )
              => PaymentOf(1) = 100 /\ PaymentOf(2) = 200 /\ PaymentOf(3) = 300

\* the example of the claim has been computed
C17_Witness ==
    /\ payoutRun.ran
    /\ Len(contributions) = 3 /\ payoutRun.totalPayout = 100 * 600
    /\ PointsOf(1) = 100 /\ PointsOf(2) = 200 /\ PointsOf(3) = 300
    /\ PaymentOf(1) = 100 /\ PaymentOf(2) = 200 /\ PaymentOf(3) = 300

\* C18: the payout uses the configuration as stored: the total payout is
\* total cash * p / 100 for the stored percentage p, 0 included, and every
\* stored weight, 0 included, is the weight applied.
C18_StoredConfigurationUsed ==
    payoutRun.ran =>
      /\ "payout_percentage" \in DOMAIN config
           => payoutRun.totalPayout = totalRwCash * config["payout_percentage"]
      /\ "rw_hit_multiplier" \in DOMAIN config
           => payoutRun.rwHitMultiplier = config["rw_hit_multiplier"]
      /\ "hit_multiplier" \in DOMAIN config
           => payoutRun.hitMultiplier = config["hit_multiplier"]
      /\ "assist_multiplier" \in DOMAIN config
           => payoutRun.assistMultiplier = config["assist_multiplier"]

\* the payout entry of the member of row i
EntriesOf(i) ==
    {x \in 1..Len(payoutRun.entries) :
        payoutRun.entries[x].id = contributions[i].member_id}

\* C19: a member whose computed payment is zero, in particular one whose four
\* counters are all zero, has no payout entry, and a member whose computed
\* payment is positive has exactly one, holding that payment.
C19_EntriesAreThePositivePayments ==
    payoutRun.ran =>
      \A i \in 1..Len(contributions) :
        /\ PaymentOf(i) = 0 => EntriesOf(i) = {}
        /\ PointsOf(i) = 0 => EntriesOf(i) = {}
        /\ PaymentOf(i) > 0 =>
             /\ Cardinality(EntriesOf(i)) = 1
             /\ \A x \in EntriesOf(i) :
                  parseInt(payoutRun.entries[x].Total_Payout).value = PaymentOf(i)

\* a member without any counter, a member with points whose payment rounds to
\* zero, and a member with a positive payment, in one payout
C19_Witness ==
    /\ payoutRun.ran
    /\ \E i, j, k \in 1..Len(contributions) :
         /\ contributions[i].war_hits + contributions[i].under_respect_hits
              + contributions[i].non_war_hits + contributions[i].assists = 0
         /\ PointsOf(j) > 0 /\ PaymentOf(j) = 0
         /\ PaymentOf(k) > 0 /\ EntriesOf(k) # {}

\* C20: the paid flag of a member goes from paid to unpaid only by the
\* operator's unverify of that member; using the stored payout again, with
\* whatever feed is fetched then, never does it.
C20_PaidUntilUnverified ==
    [][\A m \in PaidMembers :
          paid[m] /\ ~paid'[m] => lastOp' = [op |-> "unverify", member |-> m]]_vars

\* a stored payout with a paid member has been used again with a feed that
\* holds no transaction for that member, and the member is still paid
C20_Witness ==
    /\ lastOp.op = "use existing"
    /\ \E m \in PaidMembers :
         /\ paid[m]
         /\ \A j \in 1..Len(paymentData) : ~paymentData[j].increased

\* C27: a member with a tracked alert that is absent from the roster a cycle
\* fetched has its alert deleted and its tracking entry removed by that
\* cycle.  Stated for the cycles the timer starts in which nothing failed and
\* nothing else is in flight.
C27_AbsentMemberAlertDeleted ==
    \A c \in Cycles : \A m \in Members :
        Ended(c) /\ Steady(c) /\ m \in cyc[c].gone
          => cyc[c].dels[m] >= 1 /\ m \notin Tracked

\* the alert operations issued by the cycles so far, by member
Issued(c, m) == cyc[c].sends[m] + cyc[c].edits[m] + cyc[c].dels[m]
\* C28: while monitoring is stopped no cycle adds a tracking entry or sends,
\* edits or deletes an alert, and whenever a polling timer is scheduled
\* isActive is true.
C28_NothingRunsAfterStop ==
    /\ [](timers # {} => isActive)
    /\ [][~isActive /\ ~isActive' =>
            /\ DOMAIN playerMessages' \subseteq DOMAIN playerMessages
            /\ \A c \in Cycles : \A m \in Members :
                 cyc'[c].pc \notin {"idle", "fetch"} /\ cyc[c].pc # "idle"
                   => Issued(c, m)' = Issued(c, m)]_vars

\* C29: at most one polling timer exists at any time, and it is the one
\* stored in intervalId.
C29_OneStoredTimer ==
    /\ Cardinality(timers) <= 1
    /\ \A t \in timers : t = intervalId

\* the page the claim prescribes for a press of customId on page p of total
ClaimedPage(customId, p, total) ==
    CASE customId = "warreport_first" -> 0
      [] customId = "warreport_prev" -> IF p = 0 THEN 0 ELSE p - 1
      [] customId = "warreport_next" -> IF p + 1 > total - 1 THEN total - 1 ELSE p + 1
      [] customId = "warreport_last" -> total - 1
      [] OTHER -> p

\* C30: a press of a navigation button stores the page the button names
\* (first, previous, next, last) in activeReports and renders it, and the
\* stored page is always one of the pages of the report.
C30_NavigationStoresPage ==
    /\ [](\A msg \in DOMAIN activeReports :
            /\ 0 <= activeReports[msg].currentPage
            /\ activeReports[msg].currentPage <= totalPages(activeReports[msg]) - 1)
    /\ [][navPress' # navPress =>
            LET msg == navPress'.message
                page == ClaimedPage(navPress'.customId, activeReports[msg].currentPage,
                                    totalPages(activeReports[msg]))
            IN /\ activeReports'[msg].currentPage = page
               /\ navPress'.rendered = page + 1]_vars

\* the cell of row i under header h, <<>> when the row has none
CellOf(i, h) ==
    LET at == {k \in 1..Len(csvContent.headers) : csvContent.headers[k] = h}
        k == CHOOSE x \in at : TRUE
    IN IF at # {} /\ k <= Len(csvContent.rows[i]) THEN csvContent.rows[i][k] ELSE <<>>
\* row i is well formed and has a positive payout: a name with a bracketed
\* id in the Member column and a positive number in the Total_Payout column
WellFormedRow(i) ==
    /\ HasBracketId(CellOf(i, "Member"))
    /\ Positive(parseInt(RemoveCommas(CellOf(i, "Total_Payout"))))
    /\ \A k \in 1..Len(CellOf(i, "Total_Payout")) :
         IsDigit(CellOf(i, "Total_Payout")[k]) \/ CellOf(i, "Total_Payout")[k] = ","
\* row i cannot be parsed: it has no Member value or its payout is no number
UnparseableRow(i) ==
    /\ csvContent.rows[i] # <<>>
    /\ \/ CellOf(i, "Member") = <<>>
       \/ parseInt(RemoveCommas(CellOf(i, "Total_Payout"))).nan
            /\ CellOf(i, "Total_Payout") # <<>>
\* the records returned for the Member and payout of row i
ReturnedFor(i) ==
    {x \in 1..Len(parsed.records) :
        /\ "Member" \in DOMAIN parsed.records[x]
        /\ "Total_Payout" \in DOMAIN parsed.records[x]
        /\ parsed.records[x].Member = CellOf(i, "Member")
        /\ parsed.records[x].Total_Payout = CellOf(i, "Total_Payout")}

\* C22: every well-formed row with a positive payout is returned, whatever
\* the other rows of the file are, and a row that cannot be parsed is not.
C22_MalformedRowSkipped ==
    parsed.ran =>
      \A i \in 1..Len(csvContent.rows) :
        /\ WellFormedRow(i) => ReturnedFor(i) # {}
        /\ UnparseableRow(i) => ReturnedFor(i) = {}

\* the file in csvContent is the export of the entries
Exported == csvContent.headers = ExportHeaders
\* the member id, the payment amount and the status the parsed record holds,
\* under the names of the parser or of the export
HoldsTuple(record, entry) ==
    /\ \/ "id" \in DOMAIN record /\ record["id"] = toString(entry.id)
       \/ "Member ID" \in DOMAIN record /\ record["Member ID"] = toString(entry.id)
    /\ \/ "Total_Payout" \in DOMAIN record
            /\ record["Total_Payout"] = entry.Total_Payout
       \/ "Payment Amount" \in DOMAIN record
            /\ record["Payment Amount"] = entry.Total_Payout
    /\ "Status" \in DOMAIN record
    /\ record["Status"] = StatusOf(entry, verification.verifiedPayments)

\* C23: parsing the export of a payout returns one record for every exported
\* entry, in the same order, with the entry's member id, payment amount and
\* status, and no other record.
C23_ExportParsesBack ==
    parsed.ran /\ Exported =>
      /\ Len(parsed.records) = Len(entries)
      /\ \A i \in 1..Len(entries) : HoldsTuple(parsed.records[i], entries[i])

\* C21: once the payout command has computed the distribution of the war and
\* reported success, getPayoutByWarId returns a summary and one line item for
\* every computed entry, holding its payment amount and a paid flag.
C21_ComputedPayoutPersisted ==
    payoutRun.ran =>
      /\ getPayoutByWarId.summary # {}
      /\ DOMAIN getPayoutByWarId.members =
            {payoutRun.entries[x].id : x \in 1..Len(payoutRun.entries)}
      /\ \A x \in 1..Len(payoutRun.entries) :
           LET item == getPayoutByWarId.members[payoutRun.entries[x].id]
           IN /\ item.payment_amount =
                    parseInt(payoutRun.entries[x].Total_Payout).value
              /\ item.paid \in BOOLEAN

\* the requests of the call of the write that is running or has returned
RequestsOfRun == {x \in 1..Len(save.requests) : save.requests[x].run = save.run}
EveryRequestSucceeded == \A x \in RequestsOfRun : save.requests[x].ok
Returned == save.result \in {"true", "false"}

\* C24: a write that has returned has returned true if every one of its
\* store requests succeeded and false if at least one returned an error.
C24_FailureReported ==
    Returned => (save.result = "true" <=> EveryRequestSucceeded)

\* a request of the API failed during the generation just made
ApiRequestFailed(g) == ~g.warOk \/ ~g.membersOk \/ g.failedPage # 0

\* C25: a generation during which a request of the API failed (war data,
\* member list or a page of the attack log) leaves the stored summary and the
\* stored contributions of the war as they were.
C25_FailedGenerationKeepsReport ==
    [][(generation'.count # generation.count /\ ApiRequestFailed(generation'))
         => UNCHANGED <<warReport, memberContributions>>]_vars

\* the table the write in progress writes to
TableOf(fn) ==
    IF fn = "saveMemberContributions" THEN memberContributions ELSE memberPayouts
Batched == save.fn \in {"saveMemberContributions", "saveWarMemberPayouts"}
\* the requests of the running call carry consecutive batches from the first
\* record on, full ones except the last of the list
ConsecutiveBatches ==
    LET reqs == SelectSeq(save.requests, LAMBDA r : r.run = save.run)
    IN \A x \in 1..Len(reqs) :
         /\ reqs[x].from = (IF x = 1 THEN 1 ELSE reqs[x - 1].to + 1)
         /\ reqs[x].from <= reqs[x].to
         /\ reqs[x].to - reqs[x].from + 1 <= batchSize(save.fn)
         /\ reqs[x].to = Min({Len(save.records),
                              reqs[x].from + batchSize(save.fn) - 1})
\* the requests of a call that went through all its batches end with the
\* last record
CoversAllRecords ==
    LET reqs == SelectSeq(save.requests, LAMBDA r : r.run = save.run)
    IN reqs # <<>> /\ reqs[Len(reqs)].to = Len(save.records)
\* an earlier call of the write had a request that failed
FailedBefore ==
    \E x \in 1..Len(save.requests) :
        save.requests[x].run < save.run /\ ~save.requests[x].ok
\* the table after one call of the write in which every request succeeds:
\* the row of every record, and the rows of the other members as before
AfterOneFullRun ==
    [k \in DOMAIN save.before \cup 1..Len(save.records) |->
        IF k \in 1..Len(save.records) THEN save.records[k].row
        ELSE save.before[k]]

\* C26: the requests of a batched write carry consecutive batches of at most
\* the batch size that together hold every record once, and a call that goes
\* through with every request succeeding, after a call that failed part-way,
\* leaves the table as one fully successful call would: one row per key.
C26_RerunIsIdempotent ==
    Batched =>
      /\ ConsecutiveBatches
      /\ save.result = "true" => CoversAllRecords
      /\ save.result = "true" /\ EveryRequestSucceeded /\ FailedBefore =>
           TableOf(save.fn) = AfterOneFullRun
\* the payouts of 51 members are saved again, with success, after a call
\* whose first batch was stored and whose second failed, over a stored row
C26_Witness ==
    /\ save.fn = "saveWarMemberPayouts"
    /\ save.result = "true" /\ save.run = 2
    /\ EveryRequestSucceeded
    /\ Len(save.records) > batchSize(save.fn)
    /\ 1 \in DOMAIN save.before
    /\ \E x, y \in 1..Len(save.requests) :
         /\ save.requests[x].run = 1 /\ save.requests[x].ok
         /\ save.requests[y].run = 1 /\ ~save.requests[y].ok

====
